---- MODULE Spec2Model ----
(***************************************************************************)
(* A model of the SOLE proof-of-authority ledger node: the badger-backed   *)
(* chain store (blocks and the "lh" tip pointer), the UTXO index, the      *)
(* mempool and the handlers that change them.  Hashes and signatures are   *)
(* symbolic: a hash is the tuple of the bytes that were hashed, a          *)
(* signature is the pair (signing key, signed digest).                     *)
(***************************************************************************)
EXTENDS Integers, Sequences, FiniteSets, TLC

\* ------------------------------------------------------------------------
\* Bounds of the model
\* ------------------------------------------------------------------------
MaxTime == 2
MaxHeight == 2
MaxMempool == 2
PowSpace == 2

\* ------------------------------------------------------------------------
\* Byte strings.  A byte string is a pair <<form, name>>; the form fixes the
\* length: "raw" is a 64-byte X||Y key, "std" a 65-byte 0x04||X||Y key,
\* "tag" arbitrary text, "nil" the empty slice.  A 20-byte RIPEMD160 digest
\* is a triple <<"pkh", form, name>>.
\* ------------------------------------------------------------------------
Nil == <<"nil", "">>
Raw(k) == <<"raw", k>>
Std(k) == <<"std", k>>
Tag(s) == <<"tag", s>>
ByteLen(b) == IF b[1] = "raw" THEN 64 ELSE IF b[1] = "std" THEN 65 ELSE IF b[1] = "nil" THEN 0 ELSE 7

HashPubKey(pubKey) == <<"pkh", pubKey[1], pubKey[2]>>

\* The address of a wallet key: Base58Check of HashPubKey(X||Y); an output
\* locked to the address carries that pubKeyHash.
AddressOf(k) == HashPubKey(Raw(k))

\* ECDSA over P-256: only the holder of key k produces a signature that
\* verifies under k, and it verifies for the signed digest alone.
NoSig == [signer |-> "none", msg |-> <<>>]
EcdsaSign(k, digest) == [signer |-> k, msg |-> digest]
EcdsaVerify(k, digest, sig) == sig.signer = k /\ sig.msg = digest
SigLen(sig) == IF sig = NoSig THEN 0 ELSE 64

\* ------------------------------------------------------------------------
\* Transactions
\* ------------------------------------------------------------------------
EmptyId == <<>>

TxOutput(value, pubKeyHash) == [Value |-> value, PubKeyHash |-> pubKeyHash]
TxInput(txid, vout, sig, pubKey) == [Txid |-> txid, Vout |-> vout, Signature |-> sig, PubKey |-> pubKey]

\* SerializeForHash followed by SHA-256: the id is a function of the inputs,
\* the outputs and the timestamp, and of nothing else.
SerializeForHash(tx) == <<tx.Vin, tx.Vout, tx.Timestamp>>
TxHash(tx) == SerializeForHash(tx)

IsCoinbase(tx) == Len(tx.Vin) = 1 /\ tx.Vin[1].Txid = EmptyId /\ tx.Vin[1].Vout = -1

TrimmedCopy(tx) ==
    [ID |-> tx.ID,
     Vin |-> [i \in 1..Len(tx.Vin) |-> TxInput(tx.Vin[i].Txid, tx.Vin[i].Vout, NoSig, Nil)],
     Vout |-> tx.Vout,
     Timestamp |-> tx.Timestamp]

\* The digest signed for input i: the hash of the trimmed copy whose input i
\* carries the pubKeyHash of the output it spends.
SigningDigest(tx, i, prevPubKeyHash) ==
    TxHash([TrimmedCopy(tx) EXCEPT !.Vin[i].PubKey = prevPubKeyHash])

MinerReward == 20

\* NewCoinbaseTX(to, "", amount): the memo defaults to "Reward to '<to>'" and
\* the timestamp is the clock's second.
NewCoinbaseTX(to, ts) ==
    LET body == [ID |-> EmptyId,
                 Vin |-> <<TxInput(EmptyId, -1, NoSig, Tag(to))>>,
                 Vout |-> <<TxOutput(MinerReward, AddressOf(to))>>,
                 Timestamp |-> ts]
    IN [body EXCEPT !.ID = TxHash(body)]

\* DeserializeTransaction recomputes the id from the decoded fields.
DeserializeTransaction(body) == [body EXCEPT !.ID = TxHash(body)]

\* Transaction.Sign with one key: every input gets that key's signature over
\* its own digest.  pins[i] is the pubKeyHash of the output input i spends.
RECURSIVE SignInputs(_, _, _, _)
SignInputs(tx, k, pins, i) ==
    IF i > Len(tx.Vin) THEN tx
    ELSE SignInputs([tx EXCEPT !.Vin[i].Signature = EcdsaSign(k, SigningDigest(tx, i, pins[i]))],
                    k, pins, i + 1)
Sign(tx, k, pins) == IF IsCoinbase(tx) THEN tx ELSE SignInputs(tx, k, pins, 1)

\* ------------------------------------------------------------------------
\* Genesis
\* ------------------------------------------------------------------------
GenesisTimestamp == 1768947120
\* The genesis amount in model units (the source's 5000000 * 10^8 does not
\* fit the checker's integers).
GenesisReward == 10
GenesisTxId == <<<<>>, <<>>, -1>>
GenesisAdmin == "kA"

GenesisTx ==
    [ID |-> GenesisTxId,
     Vin |-> <<TxInput(EmptyId, -1, NoSig, Tag("GenesisCoinbaseData"))>>,
     Vout |-> <<TxOutput(GenesisReward, AddressOf(GenesisAdmin))>>,
     Timestamp |-> GenesisTimestamp]

\* ------------------------------------------------------------------------
\* Blocks
\* ------------------------------------------------------------------------
\* Merkle root over the ordered transaction ids: leaves are hashed ids, a
\* level of odd length repeats its last node, a parent hashes its children.
RECURSIVE MerkleLevel(_)
MerkleLevel(nodes) ==
    IF Len(nodes) = 1 THEN nodes[1]
    ELSE LET even == IF Len(nodes) % 2 = 1 THEN Append(nodes, nodes[Len(nodes)]) ELSE nodes
         IN MerkleLevel([i \in 1..(Len(even) \div 2) |-> <<"node", even[2 * i - 1], even[2 * i]>>])
NewMerkleTree(ids) == MerkleLevel([i \in 1..Len(ids) |-> <<"leaf", ids[i]>>])

HashTransactions(b) ==
    IF Len(b.Transactions) = 0 THEN <<>>
    ELSE NewMerkleTree([i \in 1..Len(b.Transactions) |-> b.Transactions[i].ID])

\* Block.SetHash: SHA-256 over PrevBlockHash, merkle root, timestamp, height,
\* nonce and validator.  Signature and Hash are not hashed.
HeaderHash(b) == <<b.PrevBlockHash, HashTransactions(b), b.Timestamp, b.Height, b.Nonce, b.Validator>>
SetHash(b) == [b EXCEPT !.Hash = HeaderHash(b)]

\* The first byte of a hash, as a function of what was hashed.
FirstByte(h) == (h[3] + h[4] + h[5] + Len(h[1])) % PowSpace
TargetZeros == 1
CheckProofOfWork(hash) == Len(hash) >= TargetZeros /\ FirstByte(hash) = 0

\* ValidateBlockHeader: nil, or the error of the first rule the block breaks.
DriftTolerance == 60
ValidateBlockHeader(block, prevBlock, localNow) ==
    IF block.Timestamp <= prevBlock.Timestamp THEN "timestamp is not monotonic"
    ELSE IF block.Timestamp > localNow + DriftTolerance THEN "timestamp too far in future"
    ELSE IF ~CheckProofOfWork(block.Hash) THEN "invalid PoA Proof-of-Work"
    ELSE "nil"

\* MineBlock: the smallest nonce from 0 whose header hash meets the target.
RECURSIVE MineFrom(_, _)
MineFrom(b, n) ==
    LET c == SetHash([b EXCEPT !.Nonce = n])
    IN IF CheckProofOfWork(c.Hash) THEN c ELSE MineFrom(b, n + 1)
MineBlock(b) == MineFrom(b, 0)

NewBlock(transactions, prevBlockHash, height, validator, ts) ==
    SetHash([Timestamp |-> ts, Transactions |-> transactions, PrevBlockHash |-> prevBlockHash,
             Hash |-> EmptyId, Height |-> height, Nonce |-> 0, Validator |-> validator,
             Signature |-> NoSig])

NewGenesisBlock ==
    MineBlock([Timestamp |-> GenesisTimestamp, Transactions |-> <<GenesisTx>>,
               PrevBlockHash |-> EmptyId, Hash |-> EmptyId, Height |-> 0, Nonce |-> 0,
               Validator |-> Tag("Genesis"), Signature |-> NoSig])

\* ------------------------------------------------------------------------
\* Consensus (proof of authority)
\* ------------------------------------------------------------------------
\* The compiled-in list holds 65-byte keys in hex.
AuthorizedValidators == {Std("kV"), Std("kW")}
IsAuthorizedValidator(pubKeyHex) == pubKeyHex \in AuthorizedValidators

\* SignBlock: the hash is set only when it is still empty; the signature is
\* over the hash; the validator becomes the raw X||Y of the signing key.
SignBlock(block, k) ==
    LET b == IF block.Hash = EmptyId THEN SetHash(block) ELSE block
    IN [b EXCEPT !.Signature = EcdsaSign(k, b.Hash), !.Validator = Raw(k)]

VerifyBlockSignature(block) ==
    /\ SigLen(block.Signature) = 64
    /\ block.Validator[1] \in {"raw", "std"}
    /\ IsAuthorizedValidator(Std(block.Validator[2]))
    /\ EcdsaVerify(block.Validator[2], block.Hash, block.Signature)

\* ------------------------------------------------------------------------
\* Maps (Go maps, badger key ranges)
\* ------------------------------------------------------------------------
EmptyMap == [x \in {} |-> 0]
MapSet(f, k, v) == [x \in DOMAIN f \cup {k} |-> IF x = k THEN v ELSE f[x]]
MapDel(f, K) == [x \in DOMAIN f \ K |-> f[x]]
Perms(S) == {p \in [1..Cardinality(S) -> S] : \A i, j \in 1..Cardinality(S) : p[i] = p[j] => i = j}

\* ------------------------------------------------------------------------
\* What peers and wallets can send
\* ------------------------------------------------------------------------
\* A wallet's transfer as it arrives on the wire: built, signed by key k,
\* serialized and deserialized.  refs[i] = <<txid, vout, pubKeyHash pinned>>.
Transfer(k, refs, outs, ts) ==
    LET body == [ID |-> EmptyId,
                 Vin |-> [i \in 1..Len(refs) |-> TxInput(refs[i][1], refs[i][2], NoSig, Raw(k))],
                 Vout |-> outs,
                 Timestamp |-> ts]
    IN DeserializeTransaction(Sign(body, k, [i \in 1..Len(refs) |-> refs[i][3]]))

hA == AddressOf("kA")
hB == AddressOf("kB")

\* admin pays 3 to B and keeps 7 as change
T1 == Transfer("kA", <<<<GenesisTxId, 0, hA>>>>, <<TxOutput(3, hB), TxOutput(7, hA)>>, GenesisTimestamp + 1)
\* B spends output 0 of T1
T3 == Transfer("kB", <<<<T1.ID, 0, hB>>>>, <<TxOutput(3, hA)>>, GenesisTimestamp + 2)
\* B signs for the genesis output, which is locked to the admin
T4 == Transfer("kB", <<<<GenesisTxId, 0, hA>>>>, <<TxOutput(10, hB)>>, GenesisTimestamp + 1)
\* admin spends the genesis output again, and pays out more than it holds
T5 == Transfer("kA", <<<<GenesisTxId, 0, hA>>>>, <<TxOutput(25, hB)>>, GenesisTimestamp + 1)
\* an input whose output index the genesis transaction does not have
T7 == Transfer("kA", <<<<GenesisTxId, 1, hA>>>>, <<TxOutput(1, hB)>>, GenesisTimestamp + 1)

TxUniverse == {T1, T3, T4, T5, T7}

\* ------------------------------------------------------------------------
\* Chain store: bs is the block range of the database (hash -> block)
\* ------------------------------------------------------------------------
\* BlockchainIterator.Next repeated from hash h until a block with an empty
\* PrevBlockHash: the blocks read, and ok = FALSE when a hash that is read is
\* not in the store (Next panics) or the walk does not end.
RECURSIVE IterFrom(_, _, _)
IterFrom(bs, h, fuel) ==
    IF h \notin DOMAIN bs THEN [ok |-> FALSE, seq |-> <<>>]
    ELSE LET b == bs[h]
         IN IF b.PrevBlockHash = EmptyId THEN [ok |-> TRUE, seq |-> <<b>>]
            ELSE IF fuel = 0 THEN [ok |-> FALSE, seq |-> <<b>>]
            ELSE LET r == IterFrom(bs, b.PrevBlockHash, fuel - 1)
                 IN [ok |-> r.ok, seq |-> <<b>> \o r.seq]
Iterator(bs, tip) == IterFrom(bs, tip, Cardinality(DOMAIN bs))

GetBlockHashes(bs, tip) ==
    LET r == Iterator(bs, tip)
    IN [ok |-> r.ok, hashes |-> [i \in 1..Len(r.seq) |-> r.seq[i].Hash]]

\* Every (block position, transaction position) of the walk, tip first.
TxPositions(seq) == UNION {{<<i, j>> : j \in 1..Len(seq[i].Transactions)} : i \in 1..Len(seq)}
Before(p, q) == p[1] < q[1] \/ (p[1] = q[1] /\ p[2] < q[2])

\* FindTransaction on a finished walk r: the first transaction with that id
\* met; "panic" when the walk broke off before it was met.
FindOnWalk(r, id) ==
    LET hits == {p \in TxPositions(r.seq) : r.seq[p[1]].Transactions[p[2]].ID = id}
    IN IF hits # {}
       THEN LET p == CHOOSE q \in hits : \A o \in hits : o = q \/ Before(q, o)
            IN [status |-> "found", tx |-> r.seq[p[1]].Transactions[p[2]]]
       ELSE [status |-> IF r.ok THEN "notfound" ELSE "panic", tx |-> GenesisTx]
FindTransaction(bs, tip, id) == FindOnWalk(Iterator(bs, tip), id)

\* A faulty Verify that skips the ownership check (pubKey against the
\* spent output's pubKeyHash).
RECURSIVE VerifyInputsNoOwnership(_, _, _)
VerifyInputsNoOwnership(tx, prevTXs, i) ==
    IF i > Len(tx.Vin) THEN "true"
    ELSE LET vin == tx.Vin[i]
             prevTx == prevTXs[vin.Txid]
         IN IF vin.Vout < 0 \/ vin.Vout >= Len(prevTx.Vout) THEN "panic"
            ELSE LET pin == prevTx.Vout[vin.Vout + 1].PubKeyHash
                 IN IF SigLen(vin.Signature) # 64 THEN "false"
                    ELSE IF ByteLen(vin.PubKey) # 64 THEN "false"
                    ELSE IF ~EcdsaVerify(vin.PubKey[2], SigningDigest(tx, i, pin), vin.Signature) THEN "false"
                    ELSE VerifyInputsNoOwnership(tx, prevTXs, i + 1)

\* Transaction.Verify from input i on: "panic" when the spent output index
\* is outside the previous transaction's outputs, "false" at the first input
\* that fails a check, "true" when every input passes.
RECURSIVE VerifyInputs(_, _, _)
VerifyInputs(tx, prevTXs, i) ==
    IF i > Len(tx.Vin) THEN "true"
    ELSE LET vin == tx.Vin[i]
             prevTx == prevTXs[vin.Txid]
         IN IF vin.Vout < 0 \/ vin.Vout >= Len(prevTx.Vout) THEN "panic"
            ELSE LET pin == prevTx.Vout[vin.Vout + 1].PubKeyHash
                 IN IF HashPubKey(vin.PubKey) # pin THEN "false"
                    ELSE IF SigLen(vin.Signature) # 64 THEN "false"
                    ELSE IF ByteLen(vin.PubKey) # 64 THEN "false"
                    ELSE IF ~EcdsaVerify(vin.PubKey[2], SigningDigest(tx, i, pin), vin.Signature) THEN "false"
                    ELSE VerifyInputs(tx, prevTXs, i + 1)
Verify(tx, prevTXs) == IF IsCoinbase(tx) THEN "true" ELSE VerifyInputs(tx, prevTXs, 1)

\* Blockchain.VerifyTransaction on a finished walk: looks every input's
\* transaction up in the chain and panics when one is missing.
VerifyOnWalk(r, tx) ==
    IF IsCoinbase(tx) THEN "true"
    ELSE LET ids == {tx.Vin[i].Txid : i \in 1..Len(tx.Vin)}
         IN IF \E id \in ids : FindOnWalk(r, id).status # "found" THEN "panic"
            ELSE Verify(tx, [id \in ids |-> FindOnWalk(r, id).tx])
VerifyTransaction(bs, tip, tx) == VerifyOnWalk(Iterator(bs, tip), tx)

\* ForgeBlock up to the write: the block built on the tip read from "lh".
ForgeBlock(bs, lastHash, transactions, k, ts) ==
    SignBlock(NewBlock(transactions, lastHash, bs[lastHash].Height + 1, Nil, ts), k)

\* A faulty ForgeBlock that moves "lh" without writing the block.
ForgeWritesNoBlock(b) == [blocks |-> {}, lh |-> b.Hash]

\* The keys ForgeBlock writes in its one database transaction.
ForgeWrites(b) == [blocks |-> {b}, lh |-> b.Hash]

\* A faulty AddBlock that skips VerifyBlockSignature.
AddBlockAcceptsNoVerify(bs, block) == block.Hash \notin DOMAIN bs

\* AddBlock's checks before it takes the lock.
AddBlockAccepts(bs, block) == block.Hash \notin DOMAIN bs /\ VerifyBlockSignature(block)

\* A faulty AddBlock that moves the tip to a block of equal height too.
AddBlockTipNotStrict(bs, lastHash, block) == IF block.Height >= bs[lastHash].Height THEN block.Hash ELSE lastHash

\* The tip pointer after AddBlock's database transaction.
AddBlockTip(bs, lastHash, block) == IF block.Height > bs[lastHash].Height THEN block.Hash ELSE lastHash

\* The keys AddBlock's database transaction writes: nothing when the block is
\* already stored, else the block and, when it is higher than the tip, "lh".
AddBlockWrites(bs, lastHash, block) ==
    IF block.Hash \in DOMAIN bs
    THEN [blocks |-> {}, lh |-> lastHash]
    ELSE [blocks |-> {block}, lh |-> AddBlockTip(bs, lastHash, block)]

\* The block keys of the database after a transaction with writes w commits.
Commit(bs, w) ==
    [h \in DOMAIN bs \cup {b.Hash : b \in w.blocks} |->
        IF \E b \in w.blocks : b.Hash = h THEN CHOOSE b \in w.blocks : b.Hash = h ELSE bs[h]]

\* ------------------------------------------------------------------------
\* UTXO index: a map from <<txid, output index>> to the output
\* ------------------------------------------------------------------------
\* UTXOSet.Update for the transactions of a block from position j on: the
\* keys of a non-coinbase transaction's inputs are deleted, then one key per
\* output is written under the output's index.
RECURSIVE UpdateFrom(_, _, _)
UpdateFrom(index, txs, j) ==
    IF j > Len(txs) THEN index
    ELSE LET tx == txs[j]
             spent == IF IsCoinbase(tx) THEN {} ELSE {<<tx.Vin[i].Txid, tx.Vin[i].Vout>> : i \in 1..Len(tx.Vin)}
             kept == MapDel(index, spent)
             new == {<<tx.ID, o - 1>> : o \in 1..Len(tx.Vout)}
         IN UpdateFrom([key \in DOMAIN kept \cup new |->
                           IF key \in new THEN tx.Vout[key[2] + 1] ELSE kept[key]],
                       txs, j + 1)
Update(index, block) == UpdateFrom(index, block.Transactions, 1)

\* Blockchain.FindUTXO over the transactions met on a walk (tip first), from
\* position n of the list on: acc.UTXO maps a transaction id to the list of
\* its outputs not seen as spent so far, acc.spent is the set of spent
\* <<txid, index>> seen so far.
RECURSIVE FindUTXOFrom(_, _, _)
FindUTXOFrom(txs, n, acc) ==
    IF n > Len(txs) THEN acc.UTXO
    ELSE LET tx == txs[n]
             unspent == SelectSeq([o \in 1..Len(tx.Vout) |-> o], LAMBDA o : <<tx.ID, o - 1>> \notin acc.spent)
             old == IF tx.ID \in DOMAIN acc.UTXO THEN acc.UTXO[tx.ID] ELSE <<>>
             outs == old \o [o \in 1..Len(unspent) |-> tx.Vout[unspent[o]]]
             ins == IF IsCoinbase(tx) THEN {} ELSE {<<tx.Vin[i].Txid, tx.Vin[i].Vout>> : i \in 1..Len(tx.Vin)}
         IN FindUTXOFrom(txs, n + 1,
                         [UTXO |-> IF Len(unspent) = 0 THEN acc.UTXO ELSE MapSet(acc.UTXO, tx.ID, outs),
                          spent |-> acc.spent \cup ins])

RECURSIVE Flatten(_)
Flatten(seqs) == IF Len(seqs) = 0 THEN <<>> ELSE Head(seqs) \o Flatten(Tail(seqs))
WalkTxs(seq) == Flatten([i \in 1..Len(seq) |-> seq[i].Transactions])

FindUTXO(bs, tip) == FindUTXOFrom(WalkTxs(Iterator(bs, tip).seq), 1, [UTXO |-> EmptyMap, spent |-> {}])

\* UTXOSet.Reindex: the prefix is dropped, then every list FindUTXO returns is
\* written under the keys <<txid, position in that list>>.
ReindexKeys(UTXO) == UNION {{<<id, o - 1>> : o \in 1..Len(UTXO[id])} : id \in DOMAIN UTXO}
Reindex(bs, tip) ==
    LET UTXO == FindUTXO(bs, tip)
    IN [key \in ReindexKeys(UTXO) |-> UTXO[key[1]][key[2] + 1]]

\* Blocks a remote authorized validator (kW) forged with this same code (R3
\* carries T1 a second time, as a node that received T1 again would forge
\* it), and a block signed by a key (kX) that is not in the authorized list.
R1 == ForgeBlock(NewGenesisBlock.Hash :> NewGenesisBlock, NewGenesisBlock.Hash, <<NewCoinbaseTX("kW", GenesisTimestamp + 1), T1>>, "kW", GenesisTimestamp + 1)
R2 == ForgeBlock(R1.Hash :> R1, R1.Hash, <<NewCoinbaseTX("kW", GenesisTimestamp + 2), T3>>, "kW", GenesisTimestamp + 2)
RX == ForgeBlock(NewGenesisBlock.Hash :> NewGenesisBlock, NewGenesisBlock.Hash, <<NewCoinbaseTX("kX", GenesisTimestamp + 1), T5>>, "kX", GenesisTimestamp + 1)
R3 == ForgeBlock(R2.Hash :> R2, R2.Hash, <<NewCoinbaseTX("kW", GenesisTimestamp + 2), T1>>, "kW", GenesisTimestamp + 2)
PeerBlocks == {R1, R2, R3, RX}

\* Blocks whose content was changed after the validator signed them: R1 with
\* other transactions, and R1 with another timestamp.  Hash and Signature
\* are those of R1.
TamperedBlocks ==
    {[R1 EXCEPT !.Transactions = <<NewCoinbaseTX("kX", GenesisTimestamp + 1), T5>>],
     [R1 EXCEPT !.Timestamp = GenesisTimestamp + 2]}

\* ------------------------------------------------------------------------
\* Wallets and the "send" command
\* ------------------------------------------------------------------------
\* A wallet: its private key and the public key bytes newKeyPair stored with
\* it, X||Y (64 bytes) or the uncompressed point 0x04||X||Y (65 bytes).
Wallet(k, format) == [key |-> k, PublicKey |-> IF format = "raw" THEN Raw(k) ELSE Std(k)]
WalletPubKeyHash(w) == HashPubKey(w.PublicKey)

\* UTXOSet.FindSpendableOutputs over the index keys in iteration order, from
\* position i on: outputs locked with the key are taken while the
\* accumulated value is below the amount.
RECURSIVE SpendableFrom(_, _, _, _, _, _)
SpendableFrom(index, order, pubKeyHash, amount, i, acc) ==
    IF i > Len(order) THEN acc
    ELSE LET out == index[order[i]]
         IN IF out.PubKeyHash = pubKeyHash /\ acc.accumulated < amount
            THEN SpendableFrom(index, order, pubKeyHash, amount, i + 1,
                               [accumulated |-> acc.accumulated + out.Value, outs |-> Append(acc.outs, order[i])])
            ELSE SpendableFrom(index, order, pubKeyHash, amount, i + 1, acc)
FindSpendableOutputs(index, order, pubKeyHash, amount) ==
    SpendableFrom(index, order, pubKeyHash, amount, 1, [accumulated |-> 0, outs |-> <<>>])

\* Blockchain.SignTransaction on a finished walk r: panics when an input's
\* transaction is not in the chain or lacks the output, else signs every
\* input with the key.
SignTransaction(r, tx, k) ==
    IF \E i \in 1..Len(tx.Vin) :
          \/ FindOnWalk(r, tx.Vin[i].Txid).status # "found"
          \/ tx.Vin[i].Vout >= Len(FindOnWalk(r, tx.Vin[i].Txid).tx.Vout)
    THEN [status |-> "panic", tx |-> tx]
    ELSE [status |-> "ok",
          tx |-> Sign(tx, k, [i \in 1..Len(tx.Vin) |->
                                 FindOnWalk(r, tx.Vin[i].Txid).tx.Vout[tx.Vin[i].Vout + 1].PubKeyHash])]

\* NewUTXOTransaction: "exit" is os.Exit(1) on insufficient funds; otherwise
\* one input per selected output, the payment, the change when there is
\* any, the id hashed before signing, then the signatures.
NewUTXOTransaction(wallet, to, amount, index, order, r, ts) ==
    LET found == FindSpendableOutputs(index, order, WalletPubKeyHash(wallet), amount)
        body == [ID |-> EmptyId,
                 Vin |-> [i \in 1..Len(found.outs) |->
                             TxInput(found.outs[i][1], found.outs[i][2], NoSig, wallet.PublicKey)],
                 Vout |-> <<TxOutput(amount, to)>> \o
                          (IF found.accumulated > amount
                           THEN <<TxOutput(found.accumulated - amount, WalletPubKeyHash(wallet))>>
                           ELSE <<>>),
                 Timestamp |-> ts]
    IN IF found.accumulated < amount THEN [status |-> "exit", tx |-> body]
       ELSE SignTransaction(r, [body EXCEPT !.ID = TxHash(body)], wallet.key)

\* Transaction.Verify as called with a map of previous transactions: it
\* panics when an input names a transaction the map lacks, before any
\* signature is looked at.
VerifyAgainst(tx, prevTXs) ==
    IF IsCoinbase(tx) THEN "true"
    ELSE IF \E i \in 1..Len(tx.Vin) : tx.Vin[i].Txid \notin DOMAIN prevTXs THEN "panic"
    ELSE Verify(tx, prevTXs)


\* The wallets of wallet.dat, and a block in which the admin pays a wallet
\* whose public key is stored in the 65-byte form.
WalletA == Wallet("kA", "raw")
WalletB == Wallet("kB", "raw")
WalletC == Wallet("kC", "raw")
WalletS == Wallet("kS", "std")
Wallets == {WalletA, WalletB, WalletC, WalletS}
TS == Transfer("kA", <<<<GenesisTxId, 0, hA>>>>, <<TxOutput(4, WalletPubKeyHash(WalletS)), TxOutput(6, hA)>>, GenesisTimestamp + 1)
RS == ForgeBlock(NewGenesisBlock.Hash :> NewGenesisBlock, NewGenesisBlock.Hash, <<NewCoinbaseTX("kW", GenesisTimestamp + 1), TS>>, "kW", GenesisTimestamp + 1)
SendAmounts == {1, 4, 7, 8}

\* ------------------------------------------------------------------------
\* Addresses: Base58Check over byte strings (sequences of 0..255); a Base58
\* string is the sequence of its characters' positions in b58Alphabet
\* ------------------------------------------------------------------------
b58AlphabetLen == 58
version == 0
\* Lengths of a pubKeyHash and of a checksum in the model (20 and 4 bytes in
\* the source).
HashLen == 2
ChecksumLen == 1

ZeroBytes(n) == [i \in 1..n |-> 0]
IsZero(x) == \A i \in 1..Len(x) : x[i] = 0
ReverseBytes(data) == [i \in 1..Len(data) |-> data[Len(data) + 1 - i]]
RECURSIVE LeadingCount(_, _)
LeadingCount(input, c) ==
    IF Len(input) = 0 \/ Head(input) # c THEN 0 ELSE 1 + LeadingCount(Tail(input), c)

\* big.Int DivMod of the big-endian number x by base: long division, byte by
\* byte.
RECURSIVE DivModFrom(_, _, _, _)
DivModFrom(x, base, i, acc) ==
    IF i > Len(x) THEN acc
    ELSE LET cur == acc.mod * 256 + x[i]
         IN DivModFrom(x, base, i + 1, [quo |-> Append(acc.quo, cur \div base), mod |-> cur % base])
DivMod(x, base) == DivModFrom(x, base, 1, [quo |-> <<>>, mod |-> 0])

\* The mutant: an encoder that leaves out the loop which writes one '1' per
\* leading zero byte of the input.
RECURSIVE Base58Digits(_, _)
Base58Digits(x, result) ==
    IF IsZero(x) THEN result
    ELSE Base58Digits(DivMod(x, b58AlphabetLen).quo, Append(result, DivMod(x, b58AlphabetLen).mod))
Base58EncodeNoZeros(input) == ReverseBytes(Base58Digits(input, <<>>))

\* Base58Encode: the digits of the input read as a number, most significant
\* first, behind one '1' (position 0) for every leading zero byte.
Base58Encode(input) ==
    ZeroBytes(LeadingCount(input, 0)) \o ReverseBytes(Base58Digits(input, <<>>))

\* result * base + charIndex on a minimal big-endian number.
RECURSIVE MulAddFrom(_, _, _, _)
MulAddFrom(x, base, i, acc) ==
    IF i = 0 THEN (IF acc.carry = 0 THEN acc.bytes ELSE <<acc.carry>> \o acc.bytes)
    ELSE LET cur == x[i] * base + acc.carry
         IN MulAddFrom(x, base, i - 1, [bytes |-> <<cur % 256>> \o acc.bytes, carry |-> cur \div 256])
MulAdd(x, base, c) == MulAddFrom(x, base, Len(x), [bytes |-> <<>>, carry |-> c])

RECURSIVE Base58Number(_, _)
Base58Number(payload, result) ==
    IF Len(payload) = 0 THEN result
    ELSE Base58Number(Tail(payload), MulAdd(result, b58AlphabetLen, Head(payload)))

\* Base58Decode: an error on a character outside the alphabet; else one
\* zero byte per leading '1', then the minimal bytes of the number.
Base58Decode(input) ==
    LET zeroBytes == LeadingCount(input, 0)
        payload == SubSeq(input, zeroBytes + 1, Len(input))
    IN IF \E i \in 1..Len(payload) : payload[i] \notin 0..(b58AlphabetLen - 1)
       THEN [err |-> "invalid base58 character", bytes |-> <<>>]
       ELSE [err |-> "nil", bytes |-> ZeroBytes(zeroBytes) \o Base58Number(payload, <<>>)]

\* checksum: the leading bytes of a double SHA-256, here a fixed function of
\* the payload's bytes.
RECURSIVE SumBytes(_)
SumBytes(b) == IF Len(b) = 0 THEN 0 ELSE Head(b) + SumBytes(Tail(b))
checksum(payload) == [i \in 1..ChecksumLen |-> (SumBytes(payload) * 31 + Len(payload) * 7 + i) % 256]

PubKeyHashToAddress(pubKeyHash) ==
    LET versionedPayload == <<version>> \o pubKeyHash
    IN Base58Encode(versionedPayload \o checksum(versionedPayload))

\* TxOutput.Lock: the pubKeyHash an address stands for ("panic" when the
\* address does not decode).
Lock(address) ==
    LET decoded == Base58Decode(address)
    IN IF decoded.err # "nil" \/ Len(decoded.bytes) < 1 + ChecksumLen THEN [status |-> "panic", pubKeyHash |-> <<>>]
       ELSE [status |-> "ok", pubKeyHash |-> SubSeq(decoded.bytes, 2, Len(decoded.bytes) - ChecksumLen)]

ValidateAddress(address) ==
    LET decoded == Base58Decode(address)
        n == Len(decoded.bytes)
    IN IF decoded.err # "nil" THEN FALSE
       ELSE IF n < ChecksumLen THEN FALSE
       ELSE LET actualChecksum == SubSeq(decoded.bytes, n - ChecksumLen + 1, n)
                pubKeyHash == SubSeq(decoded.bytes, 2, n - ChecksumLen)
            IN actualChecksum = checksum(<<decoded.bytes[1]>> \o pubKeyHash)

\* The pubKeyHashes addresses are made of, zero bytes in every position
\* among them, and addresses with one character changed.
ByteSamples == {0, 1, 57, 58, 255}
RECURSIVE ByteStrings(_)
ByteStrings(n) == IF n = 0 THEN {<<>>} ELSE {<<b>> \o t : b \in ByteSamples, t \in ByteStrings(n - 1)}
HashInputs == ByteStrings(HashLen)

\* Transaction.Serialize: the inputs, the outputs and the timestamp, length
\* prefixed; the id is not written.
Serialize(tx) == [tx EXCEPT !.ID = EmptyId]

\* Transactions as their makers return them: transfers of the admin on the
\* genesis index, miner coinbases, the genesis coinbase.
CodecInputs ==
    {NewUTXOTransaction(WalletA, to, amount, Reindex(NewGenesisBlock.Hash :> NewGenesisBlock, NewGenesisBlock.Hash),
                        <<<<GenesisTxId, 0>>>>, Iterator(NewGenesisBlock.Hash :> NewGenesisBlock, NewGenesisBlock.Hash),
                        GenesisTimestamp + d).tx : to \in {hA, hB}, amount \in 1..GenesisReward, d \in 1..MaxTime}
    \cup {NewCoinbaseTX(k, GenesisTimestamp + d) : k \in {"kA", "kV", "kW", "kX"}, d \in 1..MaxTime}
    \cup {GenesisTx}

\* TxInput.UsesKey
UsesKey(in, pubKeyHash) == HashPubKey(in.PubKey) = pubKeyHash

\* Blockchain.FindUnspentTransactions over the transactions met on a walk
\* (tip first): a transaction is appended once for each of its outputs that
\* is locked with the key and not recorded as spent so far; spent outputs
\* are recorded from the inputs that use the key.
RECURSIVE FindUnspentTransactionsFrom(_, _, _, _)
FindUnspentTransactionsFrom(txs, n, pubKeyHash, acc) ==
    IF n > Len(txs) THEN acc.unspentTXs
    ELSE LET tx == txs[n]
             hits == SelectSeq([o \in 1..Len(tx.Vout) |-> o],
                               LAMBDA o : <<tx.ID, o - 1>> \notin acc.spentTXOs /\ tx.Vout[o].PubKeyHash = pubKeyHash)
             ins == IF IsCoinbase(tx) THEN {}
                    ELSE {<<tx.Vin[i].Txid, tx.Vin[i].Vout>> : i \in {j \in 1..Len(tx.Vin) : UsesKey(tx.Vin[j], pubKeyHash)}}
         IN FindUnspentTransactionsFrom(txs, n + 1, pubKeyHash,
                [unspentTXs |-> acc.unspentTXs \o [o \in 1..Len(hits) |-> tx],
                 spentTXOs |-> acc.spentTXOs \cup ins])
FindUnspentTransactions(r, pubKeyHash) ==
    FindUnspentTransactionsFrom(WalkTxs(r.seq), 1, pubKeyHash, [unspentTXs |-> <<>>, spentTXOs |-> {}])

\* The sum RestServer.getBalance forms: every output locked with the key in
\* every transaction of the list.
RECURSIVE RestBalance(_, _)
RestBalance(txs, pubKeyHash) ==
    IF Len(txs) = 0 THEN 0
    ELSE LET outs == SelectSeq(Head(txs).Vout, LAMBDA out : out.PubKeyHash = pubKeyHash)
             vals == [o \in 1..Len(outs) |-> outs[o].Value]
             sum[i \in 0..Len(vals)] == IF i = 0 THEN 0 ELSE sum[i - 1] + vals[i]
         IN sum[Len(vals)] + RestBalance(Tail(txs), pubKeyHash)

\* UTXOSet.FindUnspentOutputs summed, as the getbalance command does: the
\* values of the index entries locked with the key.
RECURSIVE SumIndex(_, _)
SumIndex(index, keys) ==
    IF keys = {} THEN 0
    ELSE LET key == CHOOSE x \in keys : TRUE
         IN index[key].Value + SumIndex(index, keys \ {key})
FindUnspentOutputs(index, pubKeyHash) == {key \in DOMAIN index : index[key].PubKeyHash = pubKeyHash}

\* A block in which the admin pays itself (3, and 7 as change) and a block
\* in which it spends the first of these two outputs.
TD == Transfer("kA", <<<<GenesisTxId, 0, hA>>>>, <<TxOutput(3, hA), TxOutput(7, hA)>>, GenesisTimestamp + 1)
RD == ForgeBlock(NewGenesisBlock.Hash :> NewGenesisBlock, NewGenesisBlock.Hash, <<NewCoinbaseTX("kW", GenesisTimestamp + 1), TD>>, "kW", GenesisTimestamp + 1)
TE == Transfer("kA", <<<<TD.ID, 0, hA>>>>, <<TxOutput(3, hB)>>, GenesisTimestamp + 2)
RE == ForgeBlock(RD.Hash :> RD, RD.Hash, <<NewCoinbaseTX("kW", GenesisTimestamp + 2), TE>>, "kW", GenesisTimestamp + 2)

\* A transfer the admin signed whose first output carries a negative value
\* (the outputs still sum to the input), and a block of an authorized
\* validator that holds it.
TN == Transfer("kA", <<<<GenesisTxId, 0, hA>>>>, <<TxOutput(-5, hB), TxOutput(15, hA)>>, GenesisTimestamp + 1)
RN == ForgeBlock(NewGenesisBlock.Hash :> NewGenesisBlock, NewGenesisBlock.Hash, <<NewCoinbaseTX("kW", GenesisTimestamp + 1), TN>>, "kW", GenesisTimestamp + 1)

\* Blocks an authorized validator (kW) signed that claim to start a chain:
\* no previous hash, at height 0 and at height 1.
RG0 == SignBlock(NewBlock(<<NewCoinbaseTX("kW", GenesisTimestamp + 1)>>, EmptyId, 0, Nil, GenesisTimestamp + 1), "kW")
RG1 == SignBlock(NewBlock(<<NewCoinbaseTX("kW", GenesisTimestamp + 2)>>, EmptyId, 1, Nil, GenesisTimestamp + 2), "kW")

\* A coinbase-shaped transaction made outside any block (one input with an
\* empty Txid and Vout -1), and a block of validator kW that carries a
\* transfer and no coinbase.
TC == NewCoinbaseTX("kX", GenesisTimestamp + 1)
RT == ForgeBlock(NewGenesisBlock.Hash :> NewGenesisBlock, NewGenesisBlock.Hash, <<T1>>, "kW", GenesisTimestamp + 1)

\* ------------------------------------------------------------------------
\* State
\* ------------------------------------------------------------------------
VARIABLES
    blocks,     \* database: block hash -> block
    lh,         \* database: value of the key "lh" (EmptyId when the key is absent)
    LastHash,   \* Blockchain.LastHash, the in-memory copy of the tip hash
    mempool,    \* Server.Mempool: transaction id -> transaction
    utxo,       \* database: the "utxo-" range, <<txid, index>> -> output
    utxoTip,    \* hash of the last block whose Update was applied to utxo
    utxoPure,   \* TRUE while utxo was built by Update calls in chain order only
    now,        \* the clock, in seconds
    crashed,    \* the process died on an unrecovered panic (its memory, the mempool, is gone)
    miner,      \* Server.MinerAddr / ValidatorPrivKey: the node's validator key, or "none"
    Mux,        \* Blockchain.Mux: "free" or the call that holds it
    forge,      \* the ForgeBlock call in progress: its position and locals
    accept,     \* the AddBlock call in progress: its position and locals
    net,        \* messages in flight: message -> how many copies
    KnownPeers, \* Server.KnownPeers: the peers whose handshake was recorded
    peerKnown,  \* Server.KnownPeers of the remote node
    discovered, \* the nodes whose mDNS notifee has fired
    MempoolMux, \* Server.MempoolMux: "free" or the goroutine that holds it
    procs,      \* the handler goroutines in progress: goroutine -> position and locals
    arg,        \* the input of a function under test
    ret         \* the result of the function under test

chainVars == <<blocks, lh, LastHash>>
utxoVars == <<utxo, utxoTip, utxoPure>>
callVars == <<Mux, forge, accept>>
extVars == <<net, KnownPeers, peerKnown, discovered, MempoolMux, procs, arg, ret>>
vars == <<blocks, lh, LastHash, mempool, utxo, utxoTip, utxoPure, now, crashed, miner, Mux, forge, accept,
          net, KnownPeers, peerKnown, discovered, MempoolMux, procs, arg, ret>>

NoMiner == "none"
NoWrites == [blocks |-> {}, lh |-> EmptyId]
ForgeIdle == [pc |-> "idle", transactions |-> <<>>, lastHash |-> EmptyId, newBlock |-> NewGenesisBlock, writes |-> NoWrites]
AcceptIdle == [pc |-> "idle", block |-> NewGenesisBlock, writes |-> NoWrites]

\* InitBlockchain followed by the automatic Reindex of "init"; then "node
\* start", which refuses a miner key that is not an authorized validator.
InitNode ==
    /\ blocks = (NewGenesisBlock.Hash :> NewGenesisBlock)
    /\ lh = NewGenesisBlock.Hash
    /\ LastHash = NewGenesisBlock.Hash
    /\ mempool = EmptyMap
    /\ utxo = Reindex(NewGenesisBlock.Hash :> NewGenesisBlock, NewGenesisBlock.Hash)
    /\ utxoTip = NewGenesisBlock.Hash
    /\ utxoPure = TRUE
    /\ now = GenesisTimestamp + 1
    /\ crashed = FALSE
    /\ miner \in {NoMiner} \cup {k \in {"kV", "kX"} : IsAuthorizedValidator(Std(k))}
    /\ Mux = "free"
    /\ forge = ForgeIdle
    /\ accept = AcceptIdle
    /\ net = EmptyMap
    /\ KnownPeers = {}
    /\ peerKnown = {}
    /\ discovered = {}
    /\ MempoolMux = "free"
    /\ procs = EmptyMap

Init ==
    /\ InitNode
    /\ arg = <<>>
    /\ ret = <<>>

TipHeight == blocks[lh].Height

Tick ==
    /\ now < GenesisTimestamp + MaxTime
    /\ now' = now + 1
    /\ UNCHANGED <<blocks, lh, LastHash, mempool, utxo, utxoTip, utxoPure, crashed, miner, Mux, forge, accept, extVars>>

\* Server.HandleTx: the transaction is inserted when its id is new; then, on
\* a validator node, every mempool transaction is verified, the valid ones
\* are forged into a block behind a coinbase and deleted from the mempool.
HandleTx(tx) ==
    /\ ~crashed
    /\ tx.ID \notin DOMAIN mempool => Cardinality(DOMAIN mempool) < MaxMempool
    /\ \E pool \in {IF tx.ID \in DOMAIN mempool THEN mempool ELSE MapSet(mempool, tx.ID, tx)},
          walk \in {Iterator(blocks, LastHash)} :
       \E verdict \in {[id \in DOMAIN pool |-> VerifyOnWalk(walk, pool[id])]} :
       LET mining == miner # NoMiner /\ Cardinality(DOMAIN pool) >= 1
           valid == {id \in DOMAIN pool : verdict[id] = "true"}
       IN IF ~mining
          THEN /\ mempool' = pool
               /\ UNCHANGED <<blocks, lh, LastHash, utxo, utxoTip, utxoPure, now, crashed, miner, Mux, forge, accept, extVars>>
          ELSE IF \E id \in DOMAIN pool : verdict[id] = "panic"
          THEN /\ mempool' = EmptyMap
               /\ crashed' = TRUE
               /\ UNCHANGED <<blocks, lh, LastHash, utxo, utxoTip, utxoPure, now, miner, Mux, forge, accept, extVars>>
          ELSE IF valid = {}
          THEN /\ mempool' = pool
               /\ UNCHANGED <<blocks, lh, LastHash, utxo, utxoTip, utxoPure, now, crashed, miner, Mux, forge, accept, extVars>>
          ELSE /\ TipHeight < MaxHeight
               /\ \E order \in Perms(valid) :
                    LET txs == <<NewCoinbaseTX(miner, now)>> \o [i \in 1..Len(order) |-> pool[order[i]]]
                        newBlock == ForgeBlock(blocks, lh, txs, miner, now)
                        w == ForgeWrites(newBlock)
                    IN /\ blocks' = Commit(blocks, w)
                       /\ lh' = w.lh
                       /\ LastHash' = newBlock.Hash
                       /\ mempool' = MapDel(pool, {txs[i].ID : i \in 1..Len(txs)})
               /\ UNCHANGED <<utxo, utxoTip, utxoPure, now, crashed, miner, Mux, forge, accept, extVars>>

\* RestServer.sendTx: verified before the insert; a panic in an HTTP handler
\* ends that request only.
SendTx(tx) ==
    /\ ~crashed
    /\ VerifyTransaction(blocks, LastHash, tx) = "true"
    /\ tx.ID \notin DOMAIN mempool
    /\ Cardinality(DOMAIN mempool) < MaxMempool
    /\ mempool' = MapSet(mempool, tx.ID, tx)
    /\ UNCHANGED <<blocks, lh, LastHash, utxo, utxoTip, utxoPure, now, crashed, miner, Mux, forge, accept, extVars>>

\* Server.HandleBlock for a payload that decodes: AddBlock, then the block's
\* transaction ids are deleted from the mempool.
HandleBlockBody(block) ==
    /\ ~crashed
    /\ IF AddBlockAccepts(blocks, block)
       THEN /\ blocks' = MapSet(blocks, block.Hash, block)
            /\ lh' = AddBlockTip(blocks, lh, block)
            /\ LastHash' = AddBlockTip(blocks, lh, block)
       ELSE UNCHANGED <<blocks, lh, LastHash>>
    /\ mempool' = IF Cardinality(DOMAIN mempool) > 0
                  THEN MapDel(mempool, {block.Transactions[i].ID : i \in 1..Len(block.Transactions)})
                  ELSE mempool

HandleBlock(block) ==
    /\ HandleBlockBody(block)
    /\ UNCHANGED <<utxo, utxoTip, utxoPure, now, crashed, miner, Mux, forge, accept, extVars>>

\* Server.HandleBlock for a payload gob cannot decode: DeserializeBlock
\* panics in the stream's goroutine.
HandleBlockUndecodable ==
    /\ ~crashed
    /\ crashed' = TRUE
    /\ mempool' = EmptyMap
    /\ UNCHANGED <<blocks, lh, LastHash, utxo, utxoTip, utxoPure, now, miner, Mux, forge, accept, extVars>>

\* Server.HandleInv: for type "tx" the handler reads Items[0].
HandleInv(kind, items) ==
    /\ ~crashed
    /\ crashed' = (kind = "tx" /\ Len(items) = 0)
    /\ mempool' = IF kind = "tx" /\ Len(items) = 0 THEN EmptyMap ELSE mempool
    /\ UNCHANGED <<blocks, lh, LastHash, utxo, utxoTip, utxoPure, now, miner, Mux, forge, accept, extVars>>

InvKinds == {"block", "tx"}
InvItems == {<<>>, <<T1.ID>>}

\* UTXOSet.Update applied to the next block of the chain.
ApplyUpdate ==
    /\ ~crashed
    /\ LET r == Iterator(blocks, LastHash)
       IN /\ r.ok
          /\ \E i \in 1..Len(r.seq) :
                /\ r.seq[i].PrevBlockHash = utxoTip
                /\ utxo' = Update(utxo, r.seq[i])
                /\ utxoTip' = r.seq[i].Hash
    /\ UNCHANGED <<blocks, lh, LastHash, mempool, utxoPure, now, crashed, miner, Mux, forge, accept, extVars>>

\* UTXOSet.Reindex (the "reindex" command).
ReindexIndex ==
    /\ ~crashed
    /\ Iterator(blocks, LastHash).ok
    /\ utxo' = Reindex(blocks, LastHash)
    /\ utxoTip' = LastHash
    /\ utxoPure' = FALSE
    /\ UNCHANGED <<blocks, lh, LastHash, mempool, now, crashed, miner, Mux, forge, accept, extVars>>

\* ------------------------------------------------------------------------
\* ForgeBlock and AddBlock step by step, as two goroutines run them
\* ------------------------------------------------------------------------
\* ForgeBlock: chain.Mux.Lock(). The caller hands over a coinbase and one
\* transaction it verified.
ForgeBlockLock ==
    /\ ~crashed /\ miner # NoMiner
    /\ forge.pc = "idle" /\ Mux = "free"
    /\ TipHeight < MaxHeight
    /\ \E tx \in {T1, T5} :
          forge' = [forge EXCEPT !.pc = "locked", !.transactions = <<NewCoinbaseTX(miner, now), tx>>]
    /\ Mux' = "forge"
    /\ UNCHANGED <<blocks, lh, LastHash, mempool, utxo, utxoTip, utxoPure, now, crashed, miner, accept, extVars>>

\* ForgeBlock: the View that reads "lh" (log.Panic when the key is absent).
ForgeBlockReadLh ==
    /\ ~crashed /\ forge.pc = "locked"
    /\ IF lh = EmptyId
       THEN crashed' = TRUE /\ UNCHANGED forge
       ELSE forge' = [forge EXCEPT !.pc = "read", !.lastHash = lh] /\ UNCHANGED crashed
    /\ UNCHANGED <<blocks, lh, LastHash, mempool, utxo, utxoTip, utxoPure, now, miner, Mux, accept, extVars>>

\* ForgeBlock: the View that reads the tip block (log.Panic when it is
\* absent), then NewBlock and SignBlock.
ForgeBlockBuild ==
    /\ ~crashed /\ forge.pc = "read"
    /\ IF forge.lastHash \notin DOMAIN blocks
       THEN crashed' = TRUE /\ UNCHANGED forge
       ELSE /\ forge' = [forge EXCEPT !.pc = "built",
                            !.newBlock = ForgeBlock(blocks, forge.lastHash, forge.transactions, miner, now)]
            /\ UNCHANGED crashed
    /\ UNCHANGED <<blocks, lh, LastHash, mempool, utxo, utxoTip, utxoPure, now, miner, Mux, accept, extVars>>

\* ForgeBlock: the closure of Database.Update runs; its writes are buffered
\* in the transaction, chain.LastHash is assigned in memory at once.
ForgeBlockSet ==
    /\ ~crashed /\ forge.pc = "built"
    /\ forge' = [forge EXCEPT !.pc = "buffered", !.writes = ForgeWrites(forge.newBlock)]
    /\ LastHash' = forge.newBlock.Hash
    /\ UNCHANGED <<blocks, lh, mempool, utxo, utxoTip, utxoPure, now, crashed, miner, Mux, accept, extVars>>

\* ForgeBlock: Database.Update commits the buffered writes together.
ForgeBlockCommit ==
    /\ ~crashed /\ forge.pc = "buffered"
    /\ blocks' = Commit(blocks, forge.writes)
    /\ lh' = forge.writes.lh
    /\ forge' = [forge EXCEPT !.pc = "committed", !.writes = NoWrites]
    /\ UNCHANGED <<LastHash, mempool, utxo, utxoTip, utxoPure, now, crashed, miner, Mux, accept, extVars>>

\* ForgeBlock: the deferred chain.Mux.Unlock().
ForgeBlockUnlock ==
    /\ ~crashed /\ forge.pc = "committed"
    /\ forge' = ForgeIdle
    /\ Mux' = "free"
    /\ UNCHANGED <<blocks, lh, LastHash, mempool, utxo, utxoTip, utxoPure, now, crashed, miner, accept, extVars>>

\* AddBlock: the GetBlock exist check, before the lock is taken.
AddBlockExistCheck(block) ==
    /\ ~crashed /\ accept.pc = "idle"
    /\ accept' = IF block.Hash \in DOMAIN blocks THEN AcceptIdle
                 ELSE [accept EXCEPT !.pc = "checked", !.block = block]
    /\ UNCHANGED <<blocks, lh, LastHash, mempool, utxo, utxoTip, utxoPure, now, crashed, miner, Mux, forge, extVars>>

\* AddBlock: VerifyBlockSignature, before the lock is taken.
AddBlockVerify ==
    /\ ~crashed /\ accept.pc = "checked"
    /\ accept' = IF VerifyBlockSignature(accept.block) THEN [accept EXCEPT !.pc = "verified"] ELSE AcceptIdle
    /\ UNCHANGED <<blocks, lh, LastHash, mempool, utxo, utxoTip, utxoPure, now, crashed, miner, Mux, forge, extVars>>

\* A faulty AddBlock that enters its database transaction without taking
\* chain.Mux.
AddBlockLockNoMutex ==
    /\ ~crashed /\ accept.pc = "verified"
    /\ accept' = [accept EXCEPT !.pc = "locked"]
    /\ UNCHANGED <<blocks, lh, LastHash, mempool, utxo, utxoTip, utxoPure, now, crashed, miner, Mux, forge, extVars>>

\* AddBlock: chain.Mux.Lock().
AddBlockLock ==
    /\ ~crashed /\ accept.pc = "verified" /\ Mux = "free"
    /\ accept' = [accept EXCEPT !.pc = "locked"]
    /\ Mux' = "accept"
    /\ UNCHANGED <<blocks, lh, LastHash, mempool, utxo, utxoTip, utxoPure, now, crashed, miner, forge, extVars>>

\* AddBlock: the closure of Database.Update runs on the committed state; its
\* writes are buffered, chain.LastHash is assigned in memory at once.
AddBlockSet ==
    /\ ~crashed /\ accept.pc = "locked"
    /\ IF accept.block.Hash \notin DOMAIN blocks /\ (lh = EmptyId \/ lh \notin DOMAIN blocks)
       THEN crashed' = TRUE /\ UNCHANGED <<accept, LastHash>>
       ELSE /\ accept' = [accept EXCEPT !.pc = "buffered", !.writes = AddBlockWrites(blocks, lh, accept.block)]
            /\ LastHash' = IF accept.block.Hash \notin DOMAIN blocks /\ AddBlockTip(blocks, lh, accept.block) # lh
                           THEN accept.block.Hash ELSE LastHash
            /\ UNCHANGED crashed
    /\ UNCHANGED <<blocks, lh, mempool, utxo, utxoTip, utxoPure, now, miner, Mux, forge, extVars>>

\* AddBlock: Database.Update commits the buffered writes together.
AddBlockCommit ==
    /\ ~crashed /\ accept.pc = "buffered"
    /\ blocks' = Commit(blocks, accept.writes)
    /\ lh' = accept.writes.lh
    /\ accept' = [accept EXCEPT !.pc = "committed", !.writes = NoWrites]
    /\ UNCHANGED <<LastHash, mempool, utxo, utxoTip, utxoPure, now, crashed, miner, Mux, forge, extVars>>

\* AddBlock: the deferred chain.Mux.Unlock().
AddBlockUnlock ==
    /\ ~crashed /\ accept.pc = "committed"
    /\ accept' = AcceptIdle
    /\ Mux' = "free"
    /\ UNCHANGED <<blocks, lh, LastHash, mempool, utxo, utxoTip, utxoPure, now, crashed, miner, forge, extVars>>

\* ------------------------------------------------------------------------
\* The handlers step by step, as the goroutines HandleStream starts run them
\* ------------------------------------------------------------------------
\* A message on the wire.  "to" is the receiver: a node, "others" (every
\* connected peer but the sender of the message being handled) or "all".
NoBlock == [Timestamp |-> 0, Transactions |-> <<>>, PrevBlockHash |-> EmptyId, Hash |-> EmptyId,
            Height |-> 0, Nonce |-> 0, Validator |-> Nil, Signature |-> NoSig]
Msg(to, kind, type, items, height, block) ==
    [to |-> to, kind |-> kind, type |-> type, items |-> items, height |-> height, block |-> block]
InvMsg(to, type, items) == Msg(to, "inv", type, items, 0, NoBlock)
Count(bag, m) == IF m \in DOMAIN bag THEN bag[m] ELSE 0
SendData(bag, m) == MapSet(bag, m, Count(bag, m) + 1)
Receive(bag, m) == IF bag[m] = 1 THEN MapDel(bag, {m}) ELSE MapSet(bag, m, bag[m] - 1)

NoTx == [ID |-> EmptyId, Vin |-> <<>>, Vout |-> <<>>, Timestamp |-> 0]
Goroutine(pc, tx, block, txs) == [pc |-> pc, tx |-> tx, block |-> block, txs |-> txs]
At(g, pc) == g \in DOMAIN procs /\ procs[g].pc = pc
Goto(g, pc) == [procs EXCEPT ![g].pc = pc]
TxHandlers == {"tx1", "tx2"}

\* ReadData dispatches a tx message to HandleTx in a goroutine of its own.
TxStart(g, tx) ==
    /\ ~crashed /\ g \notin DOMAIN procs
    /\ procs' = MapSet(procs, g, Goroutine("check", tx, NoBlock, <<>>))
    /\ UNCHANGED <<blocks, lh, LastHash, mempool, utxo, utxoTip, utxoPure, now, crashed, miner, callVars,
                   net, KnownPeers, peerKnown, discovered, MempoolMux, arg, ret>>

\* HandleTx: the read s.Mempool[id].ID == nil.
TxCheck(g) ==
    /\ ~crashed /\ At(g, "check")
    /\ procs' = Goto(g, IF procs[g].tx.ID \in DOMAIN mempool THEN "mine" ELSE "insert")
    /\ UNCHANGED <<blocks, lh, LastHash, mempool, utxo, utxoTip, utxoPure, now, crashed, miner, callVars,
                   net, KnownPeers, peerKnown, discovered, MempoolMux, arg, ret>>

\* HandleTx: the write s.Mempool[id] = tx.
TxInsert(g) ==
    /\ ~crashed /\ At(g, "insert")
    /\ mempool' = MapSet(mempool, procs[g].tx.ID, procs[g].tx)
    /\ procs' = Goto(g, "forward")
    /\ UNCHANGED <<blocks, lh, LastHash, utxo, utxoTip, utxoPure, now, crashed, miner, callVars,
                   net, KnownPeers, peerKnown, discovered, MempoolMux, arg, ret>>

\* HandleTx: SendInv(p, "tx", {tx.ID}) to every peer but the sender.
TxForward(g) ==
    /\ ~crashed /\ At(g, "forward")
    /\ net' = SendData(net, InvMsg("others", "tx", <<procs[g].tx.ID>>))
    /\ procs' = Goto(g, "mine")
    /\ UNCHANGED <<blocks, lh, LastHash, mempool, utxo, utxoTip, utxoPure, now, crashed, miner, callVars,
                   KnownPeers, peerKnown, discovered, MempoolMux, arg, ret>>

\* HandleTx: on a validator node with a non-empty mempool, the loop that
\* verifies every mempool transaction and keeps the valid ones.
TxMine(g) ==
    /\ ~crashed /\ At(g, "mine")
    /\ \E walk \in {Iterator(blocks, LastHash)} :
       \E verdict \in {[id \in DOMAIN mempool |-> VerifyOnWalk(walk, mempool[id])]} :
       LET valid == {id \in DOMAIN mempool : verdict[id] = "true"}
       IN IF miner = NoMiner \/ Cardinality(DOMAIN mempool) < 1
          THEN procs' = Goto(g, "done") /\ UNCHANGED crashed
          ELSE IF \E id \in DOMAIN mempool : verdict[id] = "panic"
          THEN crashed' = TRUE /\ UNCHANGED procs
          ELSE IF valid = {}
          THEN procs' = Goto(g, "done") /\ UNCHANGED crashed
          ELSE /\ \E order \in Perms(valid) :
                     procs' = [procs EXCEPT ![g].pc = "forge",
                                  ![g].txs = <<NewCoinbaseTX(miner, now)>> \o [i \in 1..Len(order) |-> mempool[order[i]]]]
               /\ UNCHANGED crashed
    /\ UNCHANGED <<blocks, lh, LastHash, mempool, utxo, utxoTip, utxoPure, now, miner, callVars,
                   net, KnownPeers, peerKnown, discovered, MempoolMux, arg, ret>>

\* A faulty HandleTx that announces the block it is about to forge and
\* leaves the write for later.
TxForgeAnnounceFirst(g) ==
    /\ ~crashed /\ At(g, "forge")
    /\ TipHeight < MaxHeight
    /\ LET newBlock == ForgeBlock(blocks, lh, procs[g].txs, miner, now)
       IN /\ net' = SendData(net, InvMsg("all", "block", <<newBlock.Hash>>))
          /\ procs' = [procs EXCEPT ![g].pc = "clear", ![g].block = newBlock]
    /\ UNCHANGED <<blocks, lh, LastHash, mempool, utxo, utxoTip, utxoPure, now, crashed, miner, callVars,
                   KnownPeers, peerKnown, discovered, MempoolMux, arg, ret>>

\* HandleTx: s.Blockchain.ForgeBlock(txs, key), one call under chain.Mux.
TxForge(g) ==
    /\ ~crashed /\ At(g, "forge")
    /\ TipHeight < MaxHeight
    /\ LET newBlock == ForgeBlock(blocks, lh, procs[g].txs, miner, now)
       IN /\ blocks' = Commit(blocks, ForgeWrites(newBlock))
          /\ lh' = ForgeWrites(newBlock).lh
          /\ LastHash' = newBlock.Hash
          /\ procs' = [procs EXCEPT ![g].pc = "clear", ![g].block = newBlock]
    /\ UNCHANGED <<mempool, utxo, utxoTip, utxoPure, now, crashed, miner, callVars,
                   net, KnownPeers, peerKnown, discovered, MempoolMux, arg, ret>>

\* HandleTx: the loop of delete(s.Mempool, id) over the forged transactions.
TxClear(g) ==
    /\ ~crashed /\ At(g, "clear")
    /\ mempool' = MapDel(mempool, {procs[g].txs[i].ID : i \in 1..Len(procs[g].txs)})
    /\ procs' = Goto(g, "announce")
    /\ UNCHANGED <<blocks, lh, LastHash, utxo, utxoTip, utxoPure, now, crashed, miner, callVars,
                   net, KnownPeers, peerKnown, discovered, MempoolMux, arg, ret>>

\* HandleTx: SendInv(p, "block", {newBlock.Hash}) to every peer.
TxAnnounce(g) ==
    /\ ~crashed /\ At(g, "announce")
    /\ net' = SendData(net, InvMsg("all", "block", <<procs[g].block.Hash>>))
    /\ procs' = Goto(g, "done")
    /\ UNCHANGED <<blocks, lh, LastHash, mempool, utxo, utxoTip, utxoPure, now, crashed, miner, callVars,
                   KnownPeers, peerKnown, discovered, MempoolMux, arg, ret>>

\* RestServer.sendTx runs in the goroutine net/http starts for the request.
RestStart(tx) ==
    /\ ~crashed /\ "rest" \notin DOMAIN procs
    /\ procs' = MapSet(procs, "rest", Goroutine("verify", tx, NoBlock, <<>>))
    /\ UNCHANGED <<blocks, lh, LastHash, mempool, utxo, utxoTip, utxoPure, now, crashed, miner, callVars,
                   net, KnownPeers, peerKnown, discovered, MempoolMux, arg, ret>>

\* sendTx: VerifyTransaction; false answers 400, a panic ends the request.
RestVerify ==
    /\ ~crashed /\ At("rest", "verify")
    /\ procs' = Goto("rest", IF VerifyTransaction(blocks, LastHash, procs["rest"].tx) = "true"
                             THEN "lock" ELSE "done")
    /\ UNCHANGED <<blocks, lh, LastHash, mempool, utxo, utxoTip, utxoPure, now, crashed, miner, callVars,
                   net, KnownPeers, peerKnown, discovered, MempoolMux, arg, ret>>

\* sendTx: rs.P2P.MempoolMux.Lock(), with the Unlock deferred.
RestLock ==
    /\ ~crashed /\ At("rest", "lock")
    /\ MempoolMux = "free"
    /\ MempoolMux' = "rest"
    /\ procs' = Goto("rest", "check")
    /\ UNCHANGED <<blocks, lh, LastHash, mempool, utxo, utxoTip, utxoPure, now, crashed, miner, callVars,
                   net, KnownPeers, peerKnown, discovered, arg, ret>>

\* sendTx: the read rs.P2P.Mempool[txID].ID == nil.
RestCheck ==
    /\ ~crashed /\ At("rest", "check")
    /\ procs' = Goto("rest", IF procs["rest"].tx.ID \in DOMAIN mempool THEN "unlock" ELSE "insert")
    /\ UNCHANGED <<blocks, lh, LastHash, mempool, utxo, utxoTip, utxoPure, now, crashed, miner, callVars,
                   net, KnownPeers, peerKnown, discovered, MempoolMux, arg, ret>>

\* sendTx: the write rs.P2P.Mempool[txID] = *tx.
RestInsert ==
    /\ ~crashed /\ At("rest", "insert")
    /\ mempool' = MapSet(mempool, procs["rest"].tx.ID, procs["rest"].tx)
    /\ procs' = Goto("rest", "send")
    /\ UNCHANGED <<blocks, lh, LastHash, utxo, utxoTip, utxoPure, now, crashed, miner, callVars,
                   net, KnownPeers, peerKnown, discovered, MempoolMux, arg, ret>>

\* sendTx: the loop of rs.P2P.SendInv(p, "tx", ...) over every peer.
RestSend ==
    /\ ~crashed /\ At("rest", "send")
    /\ net' = SendData(net, InvMsg("all", "tx", <<procs["rest"].tx.ID>>))
    /\ procs' = Goto("rest", "unlock")
    /\ UNCHANGED <<blocks, lh, LastHash, mempool, utxo, utxoTip, utxoPure, now, crashed, miner, callVars,
                   KnownPeers, peerKnown, discovered, MempoolMux, arg, ret>>

\* sendTx: the deferred rs.P2P.MempoolMux.Unlock() on return.
RestUnlock ==
    /\ ~crashed /\ At("rest", "unlock")
    /\ MempoolMux' = "free"
    /\ procs' = Goto("rest", "done")
    /\ UNCHANGED <<blocks, lh, LastHash, mempool, utxo, utxoTip, utxoPure, now, crashed, miner, callVars,
                   net, KnownPeers, peerKnown, discovered, arg, ret>>

BlockHandlers == {"blk"}

\* ReadData dispatches a block message to HandleBlock in a goroutine of its own.
BlockStart(g, block) ==
    /\ ~crashed /\ g \notin DOMAIN procs
    /\ procs' = MapSet(procs, g, Goroutine("add", NoTx, block, <<>>))
    /\ UNCHANGED <<blocks, lh, LastHash, mempool, utxo, utxoTip, utxoPure, now, crashed, miner, callVars,
                   net, KnownPeers, peerKnown, discovered, MempoolMux, arg, ret>>

\* HandleBlock: s.Blockchain.AddBlock(block), one call whose database
\* transaction runs under chain.Mux; the result is not looked at.
BlockAdd(g) ==
    /\ ~crashed /\ At(g, "add")
    /\ IF AddBlockAccepts(blocks, procs[g].block)
       THEN /\ blocks' = Commit(blocks, AddBlockWrites(blocks, lh, procs[g].block))
            /\ lh' = AddBlockWrites(blocks, lh, procs[g].block).lh
            /\ LastHash' = AddBlockTip(blocks, lh, procs[g].block)
       ELSE UNCHANGED <<blocks, lh, LastHash>>
    /\ procs' = Goto(g, "prune")
    /\ UNCHANGED <<mempool, utxo, utxoTip, utxoPure, now, crashed, miner, callVars,
                   net, KnownPeers, peerKnown, discovered, MempoolMux, arg, ret>>

\* HandleBlock: if len(s.Mempool) > 0, delete(s.Mempool, id) for every
\* transaction of the block.
BlockPrune(g) ==
    /\ ~crashed /\ At(g, "prune")
    /\ mempool' = IF Cardinality(DOMAIN mempool) > 0
                  THEN MapDel(mempool, {procs[g].block.Transactions[i].ID :
                                           i \in 1..Len(procs[g].block.Transactions)})
                  ELSE mempool
    /\ procs' = Goto(g, "done")
    /\ UNCHANGED <<blocks, lh, LastHash, utxo, utxoTip, utxoPure, now, crashed, miner, callVars,
                   net, KnownPeers, peerKnown, discovered, MempoolMux, arg, ret>>

\* Two goroutines inside the unsynchronised mempool map at once, one of them
\* writing: a data race, which the Go runtime may detect and end the process
\* for ("concurrent map writes"), or may let pass as if the accesses were
\* one after the other (the steps above).
MempoolWrites == {"insert", "clear", "prune"}
MempoolReads == {"check", "mine"}
ConcurrentMapAccess ==
    /\ ~crashed
    /\ \E g \in DOMAIN procs, h \in DOMAIN procs :
          /\ g # h
          /\ procs[g].pc \in MempoolWrites
          /\ procs[h].pc \in MempoolWrites \cup MempoolReads
    /\ crashed' = TRUE
    /\ UNCHANGED <<blocks, lh, LastHash, mempool, utxo, utxoTip, utxoPure, now, miner, callVars, extVars>>

\* Server.HandleVersion step by step, one goroutine per version message.
VersionHandlers == {"ver1", "ver2"}
Peers == {"A", "C"}
VersionMsg(to, bestHeight) == Msg(to, "version", "", <<>>, bestHeight, NoBlock)
GetBlocksMsg(to) == Msg(to, "getblocks", "", <<>>, 0, NoBlock)
GetBestHeight(bs, lastHash) == bs[lastHash].Height

\* ReadData dispatches a version message to HandleVersion.
VersionStart(g, peer, bestHeight) ==
    /\ ~crashed /\ g \notin DOMAIN procs
    /\ procs' = MapSet(procs, g, [pc |-> "check", peer |-> peer, height |-> bestHeight])
    /\ UNCHANGED <<blocks, lh, LastHash, mempool, utxo, utxoTip, utxoPure, now, crashed, miner, callVars,
                   net, KnownPeers, peerKnown, discovered, MempoolMux, arg, ret>>

\* HandleVersion: the read of s.KnownPeers[peerID]; a known peer's version
\* is ignored.
VersionCheck(g) ==
    /\ ~crashed /\ At(g, "check")
    /\ procs' = Goto(g, IF procs[g].peer \in KnownPeers THEN "ignored" ELSE "insert")
    /\ UNCHANGED <<blocks, lh, LastHash, mempool, utxo, utxoTip, utxoPure, now, crashed, miner, callVars,
                   net, KnownPeers, peerKnown, discovered, MempoolMux, arg, ret>>

\* HandleVersion: the write s.KnownPeers[peerID] = AddrFrom.
VersionInsert(g) ==
    /\ ~crashed /\ At(g, "insert")
    /\ KnownPeers' = KnownPeers \cup {procs[g].peer}
    /\ procs' = Goto(g, "reply")
    /\ UNCHANGED <<blocks, lh, LastHash, mempool, utxo, utxoTip, utxoPure, now, crashed, miner, callVars,
                   net, peerKnown, discovered, MempoolMux, arg, ret>>

\* What HandleVersion sends after comparing the two best heights.
VersionReply(bag, peer, my, foreign) ==
    IF my < foreign THEN SendData(bag, GetBlocksMsg(peer))
    ELSE IF my > foreign THEN SendData(bag, VersionMsg(peer, my))
    ELSE bag

\* HandleVersion: GetBestHeight and the reply.
VersionAct(g) ==
    /\ ~crashed /\ At(g, "reply")
    /\ net' = VersionReply(net, procs[g].peer, GetBestHeight(blocks, lh), procs[g].height)
    /\ procs' = Goto(g, "acted")
    /\ UNCHANGED <<blocks, lh, LastHash, mempool, utxo, utxoTip, utxoPure, now, crashed, miner, callVars,
                   KnownPeers, peerKnown, discovered, MempoolMux, arg, ret>>

\* Two goroutines inside the unsynchronised KnownPeers map at once, one of
\* them writing: a data race, which the Go runtime may end the process for.
ConcurrentPeersAccess ==
    /\ ~crashed
    /\ \E g \in DOMAIN procs, h \in DOMAIN procs :
          g # h /\ procs[g].pc = "insert" /\ procs[h].pc \in {"check", "insert"}
    /\ crashed' = TRUE
    /\ UNCHANGED <<blocks, lh, LastHash, mempool, utxo, utxoTip, utxoPure, now, miner, callVars, extVars>>

\* ValidateBlockHeader applied to a candidate block, the block it names as
\* its predecessor, and the local clock.
HeaderTimestamps == {GenesisTimestamp, GenesisTimestamp + 1, GenesisTimestamp + 2,
                     GenesisTimestamp + 1 + DriftTolerance, GenesisTimestamp + 2 + DriftTolerance}
HeaderCandidates(prevBlock) ==
    {SetHash([Timestamp |-> ts, Transactions |-> <<NewCoinbaseTX("kW", ts)>>, PrevBlockHash |-> ph,
              Hash |-> EmptyId, Height |-> prevBlock.Height + dh, Nonce |-> n, Validator |-> Nil,
              Signature |-> NoSig]) :
        ts \in HeaderTimestamps, ph \in {prevBlock.Hash, RX.Hash}, dh \in {0, 1, 2}, n \in {0, 1}}
HeaderInputs ==
    {<<block, prevBlock, GenesisTimestamp + 1>> :
        block \in HeaderCandidates(NewGenesisBlock) \cup HeaderCandidates(R1), prevBlock \in {NewGenesisBlock, R1}}

InitHeader ==
    /\ InitNode
    /\ arg \in HeaderInputs
    /\ ret = <<>>

ValidateBlockHeaderCall ==
    /\ ret = <<>>
    /\ ret' = <<ValidateBlockHeader(arg[1], arg[2], arg[3])>>
    /\ UNCHANGED <<blocks, lh, LastHash, mempool, utxo, utxoTip, utxoPure, now, crashed, miner, callVars,
                   net, KnownPeers, peerKnown, discovered, MempoolMux, procs, arg>>

\* ------------------------------------------------------------------------
\* Two nodes: this node ("B") and a peer ("A") that holds a longer chain
\* ------------------------------------------------------------------------
\* A's chain, tip first, as GetBlockHashes walks it.
RemoteChain == <<R2, R1, NewGenesisBlock>>
RemoteHeight == RemoteChain[1].Height
RemoteHashes == [i \in 1..Len(RemoteChain) |-> RemoteChain[i].Hash]
GetDataMsg(to, type, id) == Msg(to, "getdata", type, <<id>>, 0, NoBlock)
BlockMsg(to, block) == Msg(to, "block", "", <<>>, 0, block)
Arrived(to, kind) == {m \in DOMAIN net : m.to = to /\ m.kind = kind}

RECURSIVE SendEach(_, _)
SendEach(bag, msgs) == IF Len(msgs) = 0 THEN bag ELSE SendEach(SendData(bag, Head(msgs)), Tail(msgs))

\* HandlePeerFound on node n: connect to the discovered peer and send it a
\* version message with the own best height.
HandlePeerFound(n) ==
    /\ ~crashed /\ n \notin discovered
    /\ discovered' = discovered \cup {n}
    /\ net' = IF n = "A" THEN SendData(net, VersionMsg("B", RemoteHeight))
              ELSE SendData(net, VersionMsg("A", GetBestHeight(blocks, lh)))
    /\ UNCHANGED <<blocks, lh, LastHash, mempool, utxo, utxoTip, utxoPure, now, crashed, miner, callVars,
                   KnownPeers, peerKnown, MempoolMux, procs, arg, ret>>

\* This node's HandleVersion, run alone.
RecvVersion(m) ==
    /\ ~crashed /\ m \in Arrived("B", "version")
    /\ KnownPeers' = KnownPeers \cup {"A"}
    /\ net' = IF "A" \in KnownPeers THEN Receive(net, m)
              ELSE VersionReply(Receive(net, m), "A", GetBestHeight(blocks, lh), m.height)
    /\ UNCHANGED <<blocks, lh, LastHash, mempool, utxo, utxoTip, utxoPure, now, crashed, miner, callVars,
                   peerKnown, discovered, MempoolMux, procs, arg, ret>>

\* Two version messages from A handled at the same time by this node: both
\* goroutines read KnownPeers before either writes it.  The unsynchronised
\* map accesses either pass (both handshakes are acted on) or the runtime
\* ends the process.
RecvVersionTwice(m1, m2) ==
    /\ ~crashed /\ "A" \notin KnownPeers
    /\ m1 \in Arrived("B", "version") /\ m2 \in Arrived("B", "version")
    /\ m1 # m2 \/ net[m1] >= 2
    /\ \/ /\ KnownPeers' = KnownPeers \cup {"A"}
          /\ net' = VersionReply(VersionReply(Receive(Receive(net, m1), m2), "A",
                                              GetBestHeight(blocks, lh), m1.height),
                                 "A", GetBestHeight(blocks, lh), m2.height)
          /\ UNCHANGED crashed
       \/ /\ crashed' = TRUE
          /\ UNCHANGED <<KnownPeers, net>>
    /\ UNCHANGED <<blocks, lh, LastHash, mempool, utxo, utxoTip, utxoPure, now, miner, callVars,
                   peerKnown, discovered, MempoolMux, procs, arg, ret>>

\* The peer's HandleVersion.
RemoteRecvVersion(m) ==
    /\ ~crashed /\ m \in Arrived("A", "version")
    /\ peerKnown' = peerKnown \cup {"B"}
    /\ net' = IF "B" \in peerKnown THEN Receive(net, m)
              ELSE VersionReply(Receive(net, m), "B", RemoteHeight, m.height)
    /\ UNCHANGED <<blocks, lh, LastHash, mempool, utxo, utxoTip, utxoPure, now, crashed, miner, callVars,
                   KnownPeers, discovered, MempoolMux, procs, arg, ret>>

\* The peer's HandleGetBlocks: one inv with every block hash, tip first.
RemoteRecvGetBlocks(m) ==
    /\ ~crashed /\ m \in Arrived("A", "getblocks")
    /\ net' = SendData(Receive(net, m), InvMsg("B", "block", RemoteHashes))
    /\ UNCHANGED <<blocks, lh, LastHash, mempool, utxo, utxoTip, utxoPure, now, crashed, miner, callVars,
                   KnownPeers, peerKnown, discovered, MempoolMux, procs, arg, ret>>

\* This node's HandleInv for type "block": one getdata per listed hash.
RecvInv(m) ==
    /\ ~crashed /\ m \in Arrived("B", "inv") /\ m.type = "block"
    /\ net' = SendEach(Receive(net, m), [i \in 1..Len(m.items) |-> GetDataMsg("A", "block", m.items[i])])
    /\ UNCHANGED <<blocks, lh, LastHash, mempool, utxo, utxoTip, utxoPure, now, crashed, miner, callVars,
                   KnownPeers, peerKnown, discovered, MempoolMux, procs, arg, ret>>

\* The peer's HandleGetData for type "block": the block, if it has it.
RemoteRecvGetData(m) ==
    /\ ~crashed /\ m \in Arrived("A", "getdata") /\ m.type = "block"
    /\ net' = IF \E i \in 1..Len(RemoteChain) : RemoteChain[i].Hash = m.items[1]
              THEN SendData(Receive(net, m),
                            BlockMsg("B", RemoteChain[CHOOSE i \in 1..Len(RemoteChain) : RemoteChain[i].Hash = m.items[1]]))
              ELSE Receive(net, m)
    /\ UNCHANGED <<blocks, lh, LastHash, mempool, utxo, utxoTip, utxoPure, now, crashed, miner, callVars,
                   KnownPeers, peerKnown, discovered, MempoolMux, procs, arg, ret>>

\* This node's HandleBlock for a block message from the peer.
RecvBlock(m) ==
    /\ m \in Arrived("B", "block")
    /\ HandleBlockBody(m.block)
    /\ net' = Receive(net, m)
    /\ UNCHANGED <<utxo, utxoTip, utxoPure, now, crashed, miner, callVars,
                   KnownPeers, peerKnown, discovered, MempoolMux, procs, arg, ret>>

\* The "send" command: a snapshot of the database is opened and
\* NewUTXOTransaction runs on it.  arg = <<wallet, to, amount>>.
SendCmd ==
    /\ ret = <<>>
    /\ \E order \in Perms(DOMAIN utxo) :
          ret' = <<NewUTXOTransaction(arg[1], arg[2], arg[3], utxo, order, Iterator(blocks, lh), now)>>
    /\ UNCHANGED <<blocks, lh, LastHash, mempool, utxo, utxoTip, utxoPure, now, crashed, miner, callVars,
                   net, KnownPeers, peerKnown, discovered, MempoolMux, procs, arg>>

InitTransfer ==
    /\ InitNode
    /\ arg \in {<<w, to, amount>> : w \in Wallets, to \in {hA, hB}, amount \in SendAmounts}
    /\ ret = <<>>

\* ------------------------------------------------------------------------
\* Address round trip: encode a pubKeyHash, decode the address, validate it
\* ------------------------------------------------------------------------
InitAddress ==
    /\ InitNode
    /\ arg \in {<<h>> : h \in HashInputs}
    /\ ret = <<>>

EncodeAddress ==
    /\ Len(ret) = 0
    /\ ret' = <<PubKeyHashToAddress(arg[1])>>
    /\ UNCHANGED <<blocks, lh, LastHash, mempool, utxo, utxoTip, utxoPure, now, crashed, miner, callVars,
                   net, KnownPeers, peerKnown, discovered, MempoolMux, procs, arg>>

DecodeAddress ==
    /\ Len(ret) = 1
    /\ ret' = Append(ret, Lock(ret[1]))
    /\ UNCHANGED <<blocks, lh, LastHash, mempool, utxo, utxoTip, utxoPure, now, crashed, miner, callVars,
                   net, KnownPeers, peerKnown, discovered, MempoolMux, procs, arg>>

ValidateAddressCall ==
    /\ Len(ret) = 2
    /\ ret' = Append(ret, ValidateAddress(ret[1]))
    /\ UNCHANGED <<blocks, lh, LastHash, mempool, utxo, utxoTip, utxoPure, now, crashed, miner, callVars,
                   net, KnownPeers, peerKnown, discovered, MempoolMux, procs, arg>>

\* ------------------------------------------------------------------------
\* Serialization round trip of one transaction
\* ------------------------------------------------------------------------
InitCodec ==
    /\ InitNode
    /\ arg \in {<<t>> : t \in CodecInputs}
    /\ ret = <<>>

SerializeCall ==
    /\ Len(ret) = 0
    /\ ret' = <<Serialize(arg[1])>>
    /\ UNCHANGED <<blocks, lh, LastHash, mempool, utxo, utxoTip, utxoPure, now, crashed, miner, callVars,
                   net, KnownPeers, peerKnown, discovered, MempoolMux, procs, arg>>

DeserializeCall ==
    /\ Len(ret) = 1
    /\ ret' = Append(ret, DeserializeTransaction(ret[1]))
    /\ UNCHANGED <<blocks, lh, LastHash, mempool, utxo, utxoTip, utxoPure, now, crashed, miner, callVars,
                   net, KnownPeers, peerKnown, discovered, MempoolMux, procs, arg>>

\* ------------------------------------------------------------------------
\* Balance queries: GET /balance/{address} and the getbalance command
\* ------------------------------------------------------------------------
InitBalance ==
    /\ InitNode
    /\ arg \in {<<h>> : h \in {hA, hB, WalletPubKeyHash(WalletS), AddressOf("kW")}}
    /\ ret = <<>>

RestGetBalance ==
    /\ ret = <<>>
    /\ ~crashed
    /\ Iterator(blocks, LastHash).ok
    /\ ret' = <<"api", RestBalance(FindUnspentTransactions(Iterator(blocks, LastHash), arg[1]), arg[1])>>
    /\ UNCHANGED <<blocks, lh, LastHash, mempool, utxo, utxoTip, utxoPure, now, crashed, miner, callVars,
                   net, KnownPeers, peerKnown, discovered, MempoolMux, procs, arg>>

CmdGetBalance ==
    /\ ret = <<>>
    /\ ret' = <<"index", SumIndex(utxo, FindUnspentOutputs(utxo, arg[1]))>>
    /\ UNCHANGED <<blocks, lh, LastHash, mempool, utxo, utxoTip, utxoPure, now, crashed, miner, callVars,
                   net, KnownPeers, peerKnown, discovered, MempoolMux, procs, arg>>

\* ------------------------------------------------------------------------
\* Gossip: tx and inv messages handled one at a time, with their senders
\* ------------------------------------------------------------------------
GossipPeers == {"A", "C", "D"}
MaxMessages == 2
RECURSIVE SendInv(_, _, _, _)
SendInv(bag, targets, type, items) ==
    IF targets = {} THEN bag
    ELSE LET p == CHOOSE q \in targets : TRUE
         IN SendInv(SendData(bag, InvMsg(p, type, items)), targets \ {p}, type, items)

RECURSIVE Pending(_, _)
Pending(bag, msgs) ==
    IF msgs = {} THEN 0
    ELSE LET m == CHOOSE x \in msgs : TRUE IN Count(bag, m) + Pending(bag, msgs \ {m})

\* HandleTx's forward loop: every connected peer but the sender.
ForwardTargets(peerID) == GossipPeers \ {peerID}

\* Server.HandleTx for a tx message of peer peerID, run alone: the insert and
\* the forward when the id is not in the mempool, then the mining loop and,
\* after a forge, the announcement of the block to every peer.
HandleTxFrom(peerID, tx) ==
    /\ ~crashed
    /\ tx.ID \notin DOMAIN mempool => Cardinality(DOMAIN mempool) < MaxMempool
    /\ \A q \in GossipPeers : Count(net, InvMsg(q, "tx", <<tx.ID>>)) < MaxMessages
    /\ \E pool \in {IF tx.ID \in DOMAIN mempool THEN mempool ELSE MapSet(mempool, tx.ID, tx)},
          sent \in {IF tx.ID \in DOMAIN mempool THEN net
                    ELSE SendInv(net, ForwardTargets(peerID), "tx", <<tx.ID>>)},
          walk \in {Iterator(blocks, LastHash)} :
       \E verdict \in {[id \in DOMAIN pool |-> VerifyOnWalk(walk, pool[id])]} :
       LET mining == miner # NoMiner /\ Cardinality(DOMAIN pool) >= 1
           valid == {id \in DOMAIN pool : verdict[id] = "true"}
       IN IF ~mining
          THEN /\ mempool' = pool /\ net' = sent
               /\ UNCHANGED <<blocks, lh, LastHash, crashed>>
          ELSE IF \E id \in DOMAIN pool : verdict[id] = "panic"
          THEN /\ mempool' = EmptyMap /\ net' = sent
               /\ crashed' = TRUE
               /\ UNCHANGED <<blocks, lh, LastHash>>
          ELSE IF valid = {}
          THEN /\ mempool' = pool /\ net' = sent
               /\ UNCHANGED <<blocks, lh, LastHash, crashed>>
          ELSE /\ TipHeight < MaxHeight
               /\ \E order \in Perms(valid) :
                    LET txs == <<NewCoinbaseTX(miner, now)>> \o [i \in 1..Len(order) |-> pool[order[i]]]
                        newBlock == ForgeBlock(blocks, lh, txs, miner, now)
                        w == ForgeWrites(newBlock)
                    IN /\ blocks' = Commit(blocks, w)
                       /\ lh' = w.lh
                       /\ LastHash' = newBlock.Hash
                       /\ mempool' = MapDel(pool, {txs[i].ID : i \in 1..Len(txs)})
                       /\ net' = SendInv(sent, GossipPeers, "block", <<newBlock.Hash>>)
               /\ UNCHANGED crashed
    /\ UNCHANGED <<utxo, utxoTip, utxoPure, now, miner, Mux, forge, accept,
                   KnownPeers, peerKnown, discovered, MempoolMux, procs, arg, ret>>

\* Server.HandleInv for an inv(tx) of peer peerID: a getdata goes back when
\* the mempool has no entry for the id.
HandleInvFrom(peerID, txID) ==
    /\ ~crashed
    /\ Pending(net, {x \in DOMAIN net : x.kind = "getdata"}) < MaxMessages
    /\ txID \notin DOMAIN mempool
    /\ net' = SendData(net, GetDataMsg(peerID, "tx", txID))
    /\ UNCHANGED <<blocks, lh, LastHash, mempool, utxo, utxoTip, utxoPure, now, crashed, miner, callVars,
                   KnownPeers, peerKnown, discovered, MempoolMux, procs, arg, ret>>

\* ------------------------------------------------------------------------
\* RestServer.getTip step by step, beside ForgeBlock and AddBlock
\* ------------------------------------------------------------------------
\* getTip: GetBestHeight takes chain.Mux, reads "lh" and the block under it
\* in one View (0 when either is absent) and releases the mutex.
GetTipHeight ==
    /\ ~crashed /\ ret = <<>> /\ Mux = "free"
    /\ ret' = <<IF lh \in DOMAIN blocks THEN GetBestHeight(blocks, lh) ELSE 0>>
    /\ UNCHANGED <<blocks, lh, LastHash, mempool, utxo, utxoTip, utxoPure, now, crashed, miner, callVars,
                   net, KnownPeers, peerKnown, discovered, MempoolMux, procs, arg>>

\* getTip: the read of the field chain.LastHash, without the mutex.
GetTipHash ==
    /\ ~crashed /\ Len(ret) = 1
    /\ ret' = <<ret[1], LastHash>>
    /\ UNCHANGED <<blocks, lh, LastHash, mempool, utxo, utxoTip, utxoPure, now, crashed, miner, callVars,
                   net, KnownPeers, peerKnown, discovered, MempoolMux, procs, arg>>

\* getTip: the response is encoded and the request ends.
GetTipRespond ==
    /\ ~crashed /\ Len(ret) = 2
    /\ ret' = <<>>
    /\ UNCHANGED <<blocks, lh, LastHash, mempool, utxo, utxoTip, utxoPure, now, crashed, miner, callVars,
                   net, KnownPeers, peerKnown, discovered, MempoolMux, procs, arg>>

Next ==
    \/ Tick
    \/ \E tx \in TxUniverse : HandleTx(tx)
    \/ \E tx \in TxUniverse : SendTx(tx)
    \/ \E block \in PeerBlocks : HandleBlock(block)
    \/ HandleBlockUndecodable
    \/ \E kind \in InvKinds, items \in InvItems : HandleInv(kind, items)

Spec == Init /\ [][Next]_vars

\* The node with the UTXO index maintained next to the chain.
NextUTXO ==
    \/ Tick
    \/ \E tx \in TxUniverse : HandleTx(tx)
    \/ \E block \in PeerBlocks : HandleBlock(block)
    \/ ApplyUpdate
    \/ ReindexIndex

SpecUTXO == Init /\ [][NextUTXO]_vars

\* The chain store under a forging goroutine and an accepting goroutine.
NextCalls ==
    \/ ForgeBlockLock
    \/ ForgeBlockReadLh
    \/ ForgeBlockBuild
    \/ ForgeBlockSet
    \/ ForgeBlockCommit
    \/ ForgeBlockUnlock
    \/ \E block \in PeerBlocks : AddBlockExistCheck(block)
    \/ AddBlockVerify
    \/ AddBlockLock
    \/ AddBlockSet
    \/ AddBlockCommit
    \/ AddBlockUnlock

SpecCalls == Init /\ [][NextCalls]_vars

\* The handlers interleaved step by step: two tx messages, one block
\* message and one REST request, each in a goroutine of its own.
NextHandlers ==
    \/ \E g \in TxHandlers, tx \in {T1, T4} : TxStart(g, tx)
    \/ \E g \in TxHandlers : TxCheck(g)
    \/ \E g \in TxHandlers : TxInsert(g)
    \/ \E g \in TxHandlers : TxForward(g)
    \/ \E g \in TxHandlers : TxMine(g)
    \/ \E g \in TxHandlers : TxForge(g)
    \/ \E g \in TxHandlers : TxClear(g)
    \/ \E g \in TxHandlers : TxAnnounce(g)
    \/ \E tx \in {T1, T5} : RestStart(tx)
    \/ RestVerify
    \/ RestLock
    \/ RestCheck
    \/ RestInsert
    \/ RestSend
    \/ RestUnlock
    \/ \E g \in BlockHandlers, block \in {R1, RX} : BlockStart(g, block)
    \/ \E g \in BlockHandlers : BlockAdd(g)
    \/ \E g \in BlockHandlers : BlockPrune(g)
    \/ ConcurrentMapAccess

SpecHandlers == Init /\ [][NextHandlers]_vars

\* Two version messages handled concurrently while blocks arrive.
NextVersion ==
    \/ \E g \in VersionHandlers, peer \in Peers, bestHeight \in 0..MaxHeight : VersionStart(g, peer, bestHeight)
    \/ \E g \in VersionHandlers : VersionCheck(g)
    \/ \E g \in VersionHandlers : VersionInsert(g)
    \/ \E g \in VersionHandlers : VersionAct(g)
    \/ ConcurrentPeersAccess
    \/ \E block \in {R1} : HandleBlock(block)

SpecVersion == Init /\ [][NextVersion]_vars

NextHeader == ValidateBlockHeaderCall

SpecHeader == InitHeader /\ [][NextHeader]_vars

\* Blocks from peers, signed blocks altered in transit among them.
NextAccept ==
    \/ Tick
    \/ \E tx \in TxUniverse : SendTx(tx)
    \/ \E block \in PeerBlocks \cup TamperedBlocks : HandleBlock(block)

SpecAccept == Init /\ [][NextAccept]_vars

\* Discovery and the block download between the two nodes.  Every message
\* sent is delivered and handled; mDNS finds the peer on both nodes.
NextSync ==
    \/ \E n \in {"A", "B"} : HandlePeerFound(n)
    \/ \E m \in DOMAIN net : RecvVersion(m)
    \/ \E m1 \in DOMAIN net, m2 \in DOMAIN net : RecvVersionTwice(m1, m2)
    \/ \E m \in DOMAIN net : RemoteRecvVersion(m)
    \/ \E m \in DOMAIN net : RemoteRecvGetBlocks(m)
    \/ \E m \in DOMAIN net : RecvInv(m)
    \/ \E m \in DOMAIN net : RemoteRecvGetData(m)
    \/ \E m \in DOMAIN net : RecvBlock(m)

SyncFairness ==
    /\ \A n \in {"A", "B"} : WF_vars(HandlePeerFound(n))
    /\ WF_vars(\E m \in DOMAIN net : RecvVersion(m))
    /\ WF_vars(\E m \in DOMAIN net : RemoteRecvVersion(m))
    /\ WF_vars(\E m \in DOMAIN net : RemoteRecvGetBlocks(m))
    /\ WF_vars(\E m \in DOMAIN net : RecvInv(m))
    /\ WF_vars(\E m \in DOMAIN net : RemoteRecvGetData(m))
    /\ WF_vars(\E m \in DOMAIN net : RecvBlock(m))

SpecSync == Init /\ [][NextSync]_vars /\ SyncFairness

\* Blocks arrive, the index is rebuilt by "reindex", and "send" is run once.
NextTransfer ==
    \/ \E block \in {R1, R2, RS} : ret = <<>> /\ HandleBlock(block)
    \/ ret = <<>> /\ ReindexIndex
    \/ SendCmd

SpecTransfer == InitTransfer /\ [][NextTransfer]_vars

NextAddress == EncodeAddress \/ DecodeAddress \/ ValidateAddressCall

SpecAddress == InitAddress /\ [][NextAddress]_vars

NextCodec == SerializeCall \/ DeserializeCall

SpecCodec == InitCodec /\ [][NextCodec]_vars

NextBalance ==
    \/ \E block \in {R1, R2, RS, RD, RE} : ret = <<>> /\ HandleBlock(block)
    \/ ret = <<>> /\ ReindexIndex
    \/ RestGetBalance
    \/ CmdGetBalance

SpecBalance == InitBalance /\ [][NextBalance]_vars

\* The node offered transactions with negative output values.
NextValues ==
    \/ Tick
    \/ \E tx \in {T1, T3, TN} : HandleTx(tx)
    \/ \E tx \in {T1, T3, TN} : SendTx(tx)
    \/ \E block \in {R1, R2, RN} : HandleBlock(block)

SpecValues == Init /\ [][NextValues]_vars

\* The node offered blocks without a previous hash.
NextGenesis ==
    \/ Tick
    \/ \E tx \in {T1, T3} : HandleTx(tx)
    \/ \E block \in {R1, R2, RG0, RG1} : HandleBlock(block)

SpecGenesis == Init /\ [][NextGenesis]_vars

\* A validator node or a plain node fed tx and block messages only.
NextMining ==
    \/ Tick
    \/ \E tx \in TxUniverse : HandleTx(tx)
    \/ \E block \in PeerBlocks : HandleBlock(block)

SpecMining == Init /\ [][NextMining]_vars

NextGossip ==
    \/ \E peerID \in GossipPeers, tx \in {T1, T4} : HandleTxFrom(peerID, tx)
    \/ \E peerID \in GossipPeers, tx \in {T1, T4} : HandleInvFrom(peerID, tx.ID)
    \/ \E block \in {R1} : HandleBlock(block)

SpecGossip == Init /\ [][NextGossip]_vars

NextCoinbase ==
    \/ Tick
    \/ \E tx \in {T1, TC} : HandleTx(tx)
    \/ \E tx \in {T1, TC} : SendTx(tx)
    \/ \E block \in {R1, RT} : HandleBlock(block)

SpecCoinbase == Init /\ [][NextCoinbase]_vars

NextTip ==
    \/ NextCalls
    \/ GetTipHeight
    \/ GetTipHash
    \/ GetTipRespond

SpecTip == Init /\ [][NextTip]_vars

\* ------------------------------------------------------------------------
\* Properties
\* ------------------------------------------------------------------------
GenesisHash == NewGenesisBlock.Hash
Chain == Iterator(blocks, lh)
ChainTx(p) == Chain.seq[p[1]].Transactions[p[2]]

\* Every input of a non-coinbase chain transaction, as <<position, input>>.
ChainSpends ==
    UNION {{<<p, i>> : i \in IF IsCoinbase(ChainTx(p)) THEN {} ELSE 1..Len(ChainTx(p).Vin)} : p \in TxPositions(Chain.seq)}
SpendRef(s) == <<ChainTx(s[1]).Vin[s[2]].Txid, ChainTx(s[1]).Vin[s[2]].Vout>>

\* C1: every stored block other than genesis has a prevHash that is the hash
\* of a stored block, and a height one above that parent's.
C1_ChainIntegrity ==
    \A h \in DOMAIN blocks :
        h # GenesisHash =>
            /\ blocks[h].PrevBlockHash \in DOMAIN blocks
            /\ blocks[h].Height = blocks[blocks[h].PrevBlockHash].Height + 1

\* C2: no two inputs of the chain's transactions (same transaction, same
\* block or different blocks) reference the same (txid, output index).
C2_NoDoubleSpend ==
    \A a, b \in ChainSpends : a # b => SpendRef(a) # SpendRef(b)

RECURSIVE SumValues(_)
SumValues(outs) == IF Len(outs) = 0 THEN 0 ELSE Head(outs).Value + SumValues(Tail(outs))

\* An input's reference resolves when the chain holds the transaction and
\* the transaction has that output.
Resolves(r, vin) ==
    /\ FindOnWalk(r, vin.Txid).status = "found"
    /\ vin.Vout >= 0 /\ vin.Vout < Len(FindOnWalk(r, vin.Txid).tx.Vout)
Referenced(r, vin) == FindOnWalk(r, vin.Txid).tx.Vout[vin.Vout + 1]
AllResolve(r, tx) == \A i \in 1..Len(tx.Vin) : Resolves(r, tx.Vin[i])
Conserves(r, tx) ==
    SumValues([i \in 1..Len(tx.Vin) |-> Referenced(r, tx.Vin[i])]) >= SumValues(tx.Vout)

\* C3: every non-coinbase transaction in the mempool or in a chain block,
\* whose inputs resolve in the chain, spends at least as much value as its
\* outputs carry.
C3_ConservationOfValue ==
    \A tx \in {mempool[id] : id \in DOMAIN mempool} \cup {ChainTx(p) : p \in TxPositions(Chain.seq)} :
        (~IsCoinbase(tx) /\ AllResolve(Chain, tx)) => Conserves(Chain, tx)

\* C4: every stored block other than genesis, forged here or accepted from
\* a peer, passes VerifyBlockSignature and names an authorized validator.
C4_SignatureAuthenticity ==
    \A h \in DOMAIN blocks :
        h # GenesisHash =>
            /\ VerifyBlockSignature(blocks[h])
            /\ IsAuthorizedValidator(Std(blocks[h].Validator[2]))

\* C4 witness: the store holds a block forged here and a block accepted
\* from a peer.
C4_Witness ==
    /\ miner # NoMiner
    /\ \E h \in DOMAIN blocks : h # GenesisHash /\ blocks[h].Validator = Raw(miner)
    /\ \E h \in DOMAIN blocks : h # GenesisHash /\ blocks[h].Validator # Raw(miner)

\* The index that holds one entry per output of a chain transaction that no
\* input of a chain transaction references, under the output's own index.
ChainOutputs == UNION {{<<ChainTx(p).ID, o - 1>> : o \in 1..Len(ChainTx(p).Vout)} : p \in TxPositions(Chain.seq)}
ChainUnspent == ChainOutputs \ {SpendRef(s) : s \in ChainSpends}
ExpectedIndex == [key \in ChainUnspent |-> FindOnWalk(Chain, key[1]).tx.Vout[key[2] + 1]]
UpdatedInOrder == utxoPure /\ utxoTip = lh /\ Chain.ok

\* C5: once Update has been applied for every block of the chain in chain
\* order, the index is exactly the unspent outputs of the chain, each under
\* its original output index.
C5_UTXOCoverage == UpdatedInOrder => utxo = ExpectedIndex

\* C6: Reindex produces the index that Update maintained block by block.
C6_ReindexEqualsIncremental == UpdatedInOrder => Reindex(blocks, LastHash) = utxo

C8_VerifiedBeforeInsert ==
    [][\A id \in DOMAIN mempool' \ DOMAIN mempool :
          VerifyTransaction(blocks, LastHash, mempool'[id]) = "true"]_vars

\* Some input's pubKey does not hash to the pubKeyHash of the output the
\* input references.
SpendsForeignOutput(r, tx) ==
    /\ ~IsCoinbase(tx)
    /\ \E i \in 1..Len(tx.Vin) :
          Resolves(r, tx.Vin[i]) /\ HashPubKey(tx.Vin[i].PubKey) # Referenced(r, tx.Vin[i]).PubKeyHash

\* C9: a transaction whose references resolve and one of whose inputs
\* carries a pubKey that does not hash to the referenced output's pubKeyHash
\* verifies false, and no block forged by this node contains such a
\* transaction.
C9_ForeignOutputNotSpent ==
    /\ \A tx \in TxUniverse :
          (Chain.ok /\ AllResolve(Chain, tx) /\ SpendsForeignOutput(Chain, tx))
              => VerifyTransaction(blocks, lh, tx) = "false"
    /\ \A h \in DOMAIN blocks :
          (h # GenesisHash /\ blocks[h].Validator = Raw(miner)) =>
              \A j \in 1..Len(blocks[h].Transactions) :
                  ~SpendsForeignOutput(Iterator(blocks, blocks[h].PrevBlockHash), blocks[h].Transactions[j])

\* C9 witness: a validator node holds T4, which spends an output locked to
\* another key, in its mempool and has forged a block.
C9_Witness ==
    /\ miner # NoMiner
    /\ T4.ID \in DOMAIN mempool
    /\ SpendsForeignOutput(Chain, T4)
    /\ \E h \in DOMAIN blocks : h # GenesisHash /\ blocks[h].Validator = Raw(miner)

\* C10: no message from a peer ends the process.
C10_PeerMessageNeverCrashes == ~crashed

\* C11: a transaction message delivered twice, one after the other or at the
\* same time, is forwarded to the other peers at most once.
C11_DuplicateForwardedOnce ==
    \A tx \in TxUniverse : Count(net, InvMsg("others", "tx", <<tx.ID>>)) <= 1

\* The program points at which a goroutine reads or writes the mempool map,
\* and those at which it writes to the network.
MempoolAccess == MempoolReads \cup MempoolWrites
NetworkSend == {"forward", "announce", "send"}

\* C18: a goroutine that reads or writes the mempool holds the mempool mutex.
C18_MempoolUnderMutex ==
    \A g \in DOMAIN procs : procs[g].pc \in MempoolAccess => MempoolMux = g

\* C19: a goroutine that writes to the network does not hold the mempool mutex.
C19_NoSendUnderMutex ==
    \A g \in DOMAIN procs : procs[g].pc \in NetworkSend => MempoolMux # g

\* C20: for each peer at most one version message is acted on (recorded in
\* KnownPeers and answered), however the handlers interleave.
C20_OneVersionPerPeer ==
    \A peer \in Peers :
        Cardinality({g \in DOMAIN procs : procs[g].peer = peer
                                           /\ procs[g].pc \in {"insert", "reply", "acted"}}) <= 1

\* C14: recomputing the header hash of any stored block from its fields gives
\* the hash it is stored under.
C14_StoredHashIsHeaderHash ==
    \A h \in DOMAIN blocks : HeaderHash(blocks[h]) = h /\ blocks[h].Hash = h

\* C15: the hash of every stored block passes the proof-of-work check (its
\* first TargetZeros bytes are zero).
C15_StoredHashMeetsTarget ==
    \A h \in DOMAIN blocks : CheckProofOfWork(blocks[h].Hash)

\* C16: a delivered block that AddBlock does not add leaves the block store,
\* the tip and the mempool as they were.
C16_RejectedBlockChangesNothing ==
    [][\A block \in PeerBlocks :
          (HandleBlock(block) /\ ~AddBlockAccepts(blocks, block)) => UNCHANGED <<blocks, lh, LastHash, mempool>>]_vars

\* The five header rules: later than the predecessor, not more than the drift
\* tolerance ahead of the local clock, proof of work met, height one above
\* the predecessor's, previous hash equal to the predecessor's hash.
HeaderRules(block, prevBlock, localNow) ==
    /\ block.Timestamp > prevBlock.Timestamp
    /\ block.Timestamp <= localNow + DriftTolerance
    /\ CheckProofOfWork(block.Hash)
    /\ block.Height = prevBlock.Height + 1
    /\ block.PrevBlockHash = prevBlock.Hash

\* C17: header validation accepts a block exactly when it meets all five
\* header rules.
C17_HeaderAcceptedIffRules ==
    ret # <<>> => (ret[1] = "nil" <=> HeaderRules(arg[1], arg[2], arg[3]))

\* C13: a delivered block whose content is not the content its validator
\* signed is not stored, even though its hash and signature are unchanged.
C13_TamperedBlockNotStored ==
    [][\A block \in TamperedBlocks : HandleBlock(block) => UNCHANGED <<blocks, lh>>]_vars

\* This node holds the peer's chain: the same blocks under the same hashes
\* and the same tip, hence the same answer to every balance query.
Synced ==
    /\ lh = RemoteChain[1].Hash
    /\ LastHash = RemoteChain[1].Hash
    /\ \A i \in 1..Len(RemoteChain) :
          RemoteChain[i].Hash \in DOMAIN blocks /\ blocks[RemoteChain[i].Hash] = RemoteChain[i]

\* C12: with every message delivered, a node that starts at genesis next to a
\* peer with a longer chain eventually holds the peer's chain.
C12_EventuallySynced == <>Synced

\* The outcome of the "send" command, once it has run.
Sent == ret # <<>> /\ ret[1].status = "ok"
SentTx == ret[1].tx
SenderHash == WalletPubKeyHash(arg[1])
SentInputs == [i \in 1..Len(SentTx.Vin) |-> <<SentTx.Vin[i].Txid, SentTx.Vin[i].Vout>>]

\* C21: a transfer that is built spends only outputs that are unspent in the
\* chain and locked to the sender, pays the amount to the recipient first,
\* returns the remainder to the sender exactly when there is one, and its
\* outputs sum to its inputs.
C21_TransferWellFormed ==
    Sent =>
        /\ \A i \in 1..Len(SentInputs) :
              /\ SentInputs[i] \in ChainUnspent
              /\ ExpectedIndex[SentInputs[i]].PubKeyHash = SenderHash
        /\ SentTx.Vout[1] = TxOutput(arg[3], arg[2])
        /\ LET total == SumValues([i \in 1..Len(SentInputs) |-> ExpectedIndex[SentInputs[i]]])
           IN /\ Len(SentTx.Vout) = IF total > arg[3] THEN 2 ELSE 1
              /\ total > arg[3] => SentTx.Vout[2] = TxOutput(total - arg[3], SenderHash)
              /\ SumValues(SentTx.Vout) = total

\* The value an address owns: the sum over the outputs of the chain that are
\* locked to it and that no chain input references.
RECURSIVE SumOver(_, _)
SumOver(index, keys) ==
    IF keys = {} THEN 0
    ELSE LET key == CHOOSE x \in keys : TRUE IN index[key].Value + SumOver(index, keys \ {key})
Owned(index, pubKeyHash) == {key \in DOMAIN index : index[key].PubKeyHash = pubKeyHash}
ChainBalance(pubKeyHash) == SumOver(ExpectedIndex, Owned(ExpectedIndex, pubKeyHash))

\* C22: a transfer from a wallet whose unspent outputs sum to less than the
\* amount fails for insufficient funds and builds no transaction.
C22_InsufficientFundsRefused ==
    (ret # <<>> /\ Chain.ok /\ ChainBalance(SenderHash) < arg[3]) => ret[1].status = "exit"

\* C30: the UTXO index holds the unspent outputs of the chain up to the tip
\* whenever no append is in progress.
C30_IndexFollowsChain == Chain.ok => utxo = ExpectedIndex

\* The previous transactions of the transfer just built, as
\* SignTransaction collected them.
SentPrevTXs == [id \in {SentTx.Vin[i].Txid : i \in 1..Len(SentTx.Vin)} |-> FindOnWalk(Chain, id).tx]
AbsentId == <<<<>>, <<>>, 0>>
\* Every transaction that differs from tx in one input's prevTxId, prevVout
\* or pubKey, in one output's value or pubKeyHash, or in the timestamp.
Mutations(tx) ==
    UNION {
      {[tx EXCEPT !.Vin[i].Txid = id] : i \in 1..Len(tx.Vin), id \in ({AbsentId, GenesisTxId} \cup DOMAIN SentPrevTXs)},
      {[tx EXCEPT !.Vin[i].Vout = v] : i \in 1..Len(tx.Vin), v \in 0..2},
      {[tx EXCEPT !.Vin[i].PubKey = w.PublicKey] : i \in 1..Len(tx.Vin), w \in Wallets},
      {[tx EXCEPT !.Vout[j].Value = tx.Vout[j].Value + d] : j \in 1..Len(tx.Vout), d \in {1, -1}},
      {[tx EXCEPT !.Vout[j].PubKeyHash = WalletPubKeyHash(w)] : j \in 1..Len(tx.Vout), w \in Wallets},
      {[tx EXCEPT !.Timestamp = tx.Timestamp + 1]}
    } \ {tx}

\* C24: a transfer built and signed with the wallet that owns every output
\* it references verifies, and every change of an input's prevTxId,
\* prevVout or pubKey, of an output's value or pubKeyHash, or of the
\* timestamp makes verification return false.
C24_SignedVerifiesMutatedFails ==
    (Sent /\ utxo = ExpectedIndex) =>
        /\ VerifyAgainst(SentTx, SentPrevTXs) = "true"
        /\ \A t \in Mutations(SentTx) : VerifyAgainst(t, SentPrevTXs) = "false"

\* C26: decoding the Base58Check address made from a pubKeyHash gives that
\* pubKeyHash back, leading zero bytes included, and the address validates.
C26_AddressRoundTrip ==
    /\ Len(ret) >= 2 => ret[2] = [status |-> "ok", pubKeyHash |-> arg[1]]
    /\ Len(ret) >= 3 => ret[3] = TRUE
C26_Witness == Len(ret) = 3 /\ arg[1][1] = 0 /\ ret[3] = TRUE /\ ret[2].pubKeyHash = arg[1]

\* C25: a transaction read back from its serialized form has the id, the
\* inputs, the outputs and the timestamp of the transaction that was
\* written.
C25_SerializationRoundTrip ==
    Len(ret) = 2 =>
        /\ ret[2].ID = arg[1].ID
        /\ ret[2].Vin = arg[1].Vin
        /\ ret[2].Vout = arg[1].Vout
        /\ ret[2].Timestamp = arg[1].Timestamp

\* C23: on the chain scan and on the index alike, the balance returned for
\* an address is the sum of the chain's outputs locked to it that no chain
\* input references.
C23_BalanceIsUnspentSum ==
    (ret # <<>> /\ Chain.ok) => ret[2] = ChainBalance(arg[1])

\* C27: no output of a transaction in the mempool or in a stored block has a
\* negative value.
C27_NoNegativeOutput ==
    /\ \A id \in DOMAIN mempool : \A o \in 1..Len(mempool[id].Vout) : mempool[id].Vout[o].Value >= 0
    /\ \A h \in DOMAIN blocks : \A t \in 1..Len(blocks[h].Transactions) :
          \A o \in 1..Len(blocks[h].Transactions[t].Vout) : blocks[h].Transactions[t].Vout[o].Value >= 0

\* C28: the store holds exactly one block of height 0, the compiled-in
\* genesis block, and no other block without a previous hash.
C28_OneGenesis ==
    /\ {h \in DOMAIN blocks : blocks[h].Height = 0} = {NewGenesisBlock.Hash}
    /\ \A h \in DOMAIN blocks : blocks[h].PrevBlockHash = EmptyId => h = NewGenesisBlock.Hash

\* The documented emission: 50 SOLE per block, halved every 195,500 blocks,
\* 1 SOLE = 10^8 photons.  An amount is the pair <<whole SOLE, photons>>.
InitialReward == 50
HalvingInterval == 195500
PhotonsPerSole == 100000000
Amount(photons) == <<photons \div PhotonsPerSole, photons % PhotonsPerSole>>
Halve(a) == <<a[1] \div 2, (a[2] + (a[1] % 2) * PhotonsPerSole) \div 2>>
RECURSIVE Halved(_, _)
Halved(a, times) == IF times = 0 THEN a ELSE Halved(Halve(a), times - 1)
ScheduledReward(height) == Halved(<<InitialReward, 0>>, height \div HalvingInterval)

\* C29: the coinbase of every block above the genesis pays the scheduled
\* reward for the block's height: 50 SOLE halved once per 195,500 blocks.
C29_RewardFollowsHalving ==
    \A h \in DOMAIN blocks :
        blocks[h].Height >= 1 =>
            \A t \in 1..Len(blocks[h].Transactions) :
                IsCoinbase(blocks[h].Transactions[t]) =>
                    Amount(SumValues(blocks[h].Transactions[t].Vout)) = ScheduledReward(blocks[h].Height)

\* C31: the tip pointer moves only to a block strictly higher than the
\* block it pointed to, and no stored block is higher than the tip.
C31_TipIsHighest ==
    /\ [](\A h \in DOMAIN blocks : blocks[h].Height <= blocks[lh].Height)
    /\ [][lh' # lh => blocks'[lh'].Height > blocks[lh].Height]_vars
C31_Witness == \E h \in DOMAIN blocks : h # lh /\ blocks[h].Height = blocks[lh].Height /\ blocks[lh].Height >= 1

\* C32: while ForgeBlock is between its read of the tip and its write, the
\* tip is the one it read; the block it builds names that tip as previous
\* block and is one higher; and no two blocks this node forged have the
\* same height.
ForgedHere == {h \in DOMAIN blocks : miner # NoMiner /\ blocks[h].Validator = Raw(miner)}
C32_ForgeOnCurrentTip ==
    /\ forge.pc \in {"read", "built", "buffered"} => lh = forge.lastHash
    /\ forge.pc \in {"built", "buffered", "committed"} =>
          /\ forge.newBlock.PrevBlockHash = forge.lastHash
          /\ forge.newBlock.Height = blocks[forge.lastHash].Height + 1
    /\ \A h1, h2 \in ForgedHere : h1 # h2 => blocks[h1].Height # blocks[h2].Height
C32_Witness ==
    /\ Cardinality(ForgedHere) = 2
    /\ \E h \in DOMAIN blocks : h \notin ForgedHere /\ blocks[h].Height >= 1

\* A step in which a validator node ran its mining loop to the end: the
\* mempool or the store changed, and a block that was added is one this
\* node forged.
MiningTick ==
    /\ miner # NoMiner /\ ~crashed /\ ~crashed'
    /\ mempool' # mempool \/ blocks' # blocks
    /\ \A h \in DOMAIN blocks' \ DOMAIN blocks : blocks'[h].Validator = Raw(miner)

\* C33: after a mining tick no transaction that failed verification against
\* the chain in that tick is left in the mempool.
C33_FailedCandidatesDropped ==
    [][MiningTick =>
          \A id \in DOMAIN mempool' : VerifyOnWalk(Iterator(blocks, LastHash), mempool'[id]) = "true"]_vars

\* C34: every block hash announced in an inv(block) is the hash of a block
\* whose write has committed, and a committed block stays in the store, so
\* the GetBlock of a getdata for that hash finds it.
AnnouncedBlocks ==
    UNION {{m.items[i] : i \in 1..Len(m.items)} : m \in {x \in DOMAIN net : x.kind = "inv" /\ x.type = "block"}}
C34_AnnouncedAfterCommit ==
    /\ [](AnnouncedBlocks \subseteq DOMAIN blocks)
    /\ [][DOMAIN blocks \subseteq DOMAIN blocks']_vars
C34_Witness ==
    \E h \in AnnouncedBlocks : h \in DOMAIN blocks /\ blocks[h].Validator = Raw(miner) /\ lh = h

\* C35: the walk from the tip along the previous-block hashes finds every
\* block it looks up, goes down in height at every step and ends at the
\* genesis block.
C35_WalkReachesGenesis ==
    LET r == Iterator(blocks, LastHash)
    IN /\ r.ok
       /\ \A i \in 1..(Len(r.seq) - 1) : r.seq[i].Height > r.seq[i + 1].Height
       /\ r.seq[Len(r.seq)] = NewGenesisBlock

\* The ids of the transactions the node holds: those in the mempool and
\* those in the blocks of its store.
HeldIds ==
    DOMAIN mempool \cup
    UNION {{blocks[h].Transactions[t].ID : t \in 1..Len(blocks[h].Transactions)} : h \in DOMAIN blocks}
SentNow(kind) == {m \in DOMAIN net' : m.kind = kind /\ m.type = "tx" /\ Count(net', m) > Count(net, m)}

\* C36: a step sends inv(tx) only for a transaction the node did not hold,
\* once to each peer and to every peer but one (the sender), and sends
\* getdata(tx) only for a transaction the node does not hold.
C36_ForwardOnceToOthers ==
    [][/\ \A m \in SentNow("inv") :
             /\ Count(net', m) = Count(net, m) + 1
             /\ m.items[1] \notin HeldIds
       /\ SentNow("inv") # {} =>
             Cardinality({m.to : m \in SentNow("inv")}) = Cardinality(GossipPeers) - 1
       /\ \A m \in SentNow("getdata") : m.items[1] \notin HeldIds]_vars

\* C37: the block ForgeBlock has built passes VerifyBlockSignature and
\* ValidateBlockHeader against the block it was built on.
C37_ForgedBlockValidates ==
    forge.pc \in {"built", "buffered", "committed"} =>
        /\ VerifyBlockSignature(forge.newBlock)
        /\ ValidateBlockHeader(forge.newBlock, blocks[forge.lastHash], now) = "nil"

\* The ids of the transfers (not coinbases) in the stored block of hash h.
TransfersIn(h) ==
    {blocks[h].Transactions[t].ID : t \in {u \in 1..Len(blocks[h].Transactions) : ~IsCoinbase(blocks[h].Transactions[u])}}

\* C38: a transfer confirmed in a stored block is not in the mempool, and no
\* transfer is in two stored blocks.
C38_ConfirmedOnce ==
    /\ \A id \in DOMAIN mempool : \A h \in DOMAIN blocks : id \notin TransfersIn(h)
    /\ \A h1, h2 \in DOMAIN blocks : h1 # h2 => TransfersIn(h1) \cap TransfersIn(h2) = {}

\* C39: every stored block has a coinbase at index 0 and nowhere else, and
\* no coinbase-shaped transaction is in the mempool.
C39_OneCoinbaseAtFront ==
    /\ \A h \in DOMAIN blocks :
          LET txs == blocks[h].Transactions
          IN /\ Len(txs) >= 1
             /\ IsCoinbase(txs[1])
             /\ \A t \in 2..Len(txs) : ~IsCoinbase(txs[t])
    /\ \A id \in DOMAIN mempool : ~IsCoinbase(mempool[id])

\* C40: the pair getTip answers with is the height and the hash of one
\* block: a stored one, or the one ForgeBlock or AddBlock is writing.
C40_TipPairOfOneBlock ==
    Len(ret) = 2 =>
        \E b \in {blocks[h] : h \in DOMAIN blocks} \cup {forge.newBlock, accept.block} :
            b.Hash = ret[2] /\ b.Height = ret[1]

====
